---- MODULE Spec2Model ----
(***************************************************************************)
(* A model of the content-acquisition and extraction pipeline of the       *)
(* event scraper: app/core/fetchers.py (fetch_http_content,                *)
(* fetch_playwright_content) and app/core/llm.py (extract_event_info).     *)
(*                                                                         *)
(* Each function is a state machine of its own, with its own initial       *)
(* predicate and next-state relation (SpecHttp, SpecPw, SpecLlm); the      *)
(* variables of the functions a specification does not run stay idle.      *)
(* Text is modelled by TLA+ strings, character by character.               *)
(***************************************************************************)
EXTENDS Integers, Sequences, FiniteSets, TLC

VARIABLES
    \* ---- fetch_http_content ----
    h_pc,           \* position in the function
    h_url_ok,       \* input: urlparse(url) has a scheme and a netloc
    h_max_retries,  \* input: max_retries
    h_retries,      \* local: retries
    h_last_error,   \* local: last_error
    h_response,     \* outcome of the requests.get call of this iteration
    h_requests,     \* number of requests.get calls issued
    h_sleeps,       \* number of time.sleep(retry_delay) calls made
    h_hist,         \* the outcomes of the requests issued, in order
    h_out           \* what the call returned or raised

httpVars == <<h_pc, h_url_ok, h_max_retries, h_retries, h_last_error,
              h_response, h_requests, h_sleeps, h_hist, h_out>>

VARIABLES
    \* ---- fetch_playwright_content ----
    p_pc,           \* position in the function
    p_max_retries,  \* input: max_retries
    p_retry_delay,  \* input: retry_delay
    p_attempt,      \* loop variable: attempt (0-based)
    p_browsers,     \* every browser launched by the call, in launch order
    p_contexts,     \* every browser context created by the call
    p_browser,      \* local: browser (index in p_browsers, 0 when unbound)
    p_context,      \* local: context (index in p_contexts, 0 when unbound)
    p_pending,      \* the exception in flight, or the value being returned
    p_hist,         \* what happened to each attempt so far
    p_sleeps,       \* the asyncio.sleep durations, in order
    p_content,      \* local: len(content.strip()), 0 until page.content() is read
    p_out           \* what the call returned or raised

pwVars == <<p_pc, p_max_retries, p_retry_delay, p_attempt, p_browsers,
            p_contexts, p_browser, p_context, p_pending, p_hist, p_sleeps,
            p_content, p_out>>

VARIABLES
    \* ---- extract_event_info ----
    l_pc,           \* position in the function and in the retry wrapper
    l_attempt,      \* tenacity's attempt_number (1-based)
    l_calls,        \* number of model.generate_content_async calls made
    l_text,         \* response.text of this attempt
    l_object,       \* <<o>> when the model wrote l_text as the JSON of o, else <<>>
    l_result,       \* local: result, the parsed object, as key/value pairs
    l_outcome,      \* what this attempt returned or raised
    l_hist,         \* the kind of outcome of each finished attempt
    l_waits,        \* number of backoff waits made by the retry wrapper
    l_error,        \* the exception a library call of this attempt raised, None if none
    l_out           \* what the caller observes

llmVars == <<l_pc, l_attempt, l_calls, l_text, l_object, l_result, l_outcome, l_hist,
             l_waits, l_error, l_out>>

VARIABLES
    \* ---- scrape_website ----
    r_pc,           \* position in the handler
    r_pydantic_1,   \* the build: pydantic 1 installed (TRUE) or pydantic 2
    r_url,          \* input: request.url
    r_use_playwright, \* input: request.use_playwright
    r_key_length,   \* input: len(request.gemini_api_key)
    r_instructions_length, \* input: len(request.custom_instructions_text), 0 if None
    r_stages,       \* the stages called so far, in call order
    r_outcomes,     \* how each stage that is over ended: "return" or the exception
    r_response,     \* the response returned, None until then
    r_details       \* the "details" of the response's body, "" when it has none

requestVars == <<r_pydantic_1, r_url, r_use_playwright, r_key_length, r_instructions_length>>

routeVars == <<r_pc, requestVars, r_stages, r_outcomes, r_response, r_details>>

VARIABLES
    \* ---- check_rate_limit ----
    k_now,          \* datetime.now(), in seconds
    k_request_counts, \* request_counts: client address -> list of timestamps
    k_admitted,     \* per client, the time of every call that was admitted
    k_last          \* what the last call did: admitted, or raised 429

rateVars == <<k_now, k_request_counts, k_admitted, k_last>>

VARIABLES
    \* ---- the event loop serving concurrent requests ----
    e_pc,           \* per request, where its coroutine stands
    e_mode,         \* per request, "simple" or "rendered"
    e_left,         \* per request, the fetch attempts it has left
    e_thread        \* the request whose code holds the loop's thread, 0 when none

loopVars == <<e_pc, e_mode, e_left, e_thread>>

VARIABLES
    \* ---- preprocess_html ----
    q_pc,           \* position in the function
    q_html,         \* input: html_content is a string ("str") or None
    q_strategy,     \* input: strategy
    q_selectors_ok, \* input: every selector of remove_by_selector can be read
    q_max_length,   \* input: max_length
    q_converter,    \* the converter that was called, "" if none was
    q_markdown,     \* local: markdown_content as the converter returned it
    q_digest,       \* local: markdown_content after the cleanup of lines 84-85
    q_cause,        \* the exception raised inside the try, "" if none
    q_out           \* what the caller observes

preVars == <<q_pc, q_html, q_strategy, q_selectors_ok, q_max_length, q_converter,
             q_markdown, q_digest, q_cause, q_out>>

VARIABLES
    \* ---- create_extraction_prompt ----
    m_pc,           \* position in the function
    m_content,      \* input: content
    m_custom_instructions, \* input: custom_instructions, <<>> for None
    m_prompt,       \* local: prompt_template, then prompt
    m_out           \* what the caller observes

promptVars == <<m_pc, m_content, m_custom_instructions, m_prompt, m_out>>

VARIABLES
    \* ---- concurrent calls of extract_event_info ----
    g_api_key,      \* the key genai.configure installed last, "" before any
    g_pc,           \* call -> position of the call
    g_attempt,      \* call -> number of the attempt
    g_client,       \* call -> key of the client its model instance holds
    g_invocations   \* history: the invocations started, with the key in effect

genaiVars == <<g_api_key, g_pc, g_attempt, g_client, g_invocations>>

restVars == <<routeVars, rateVars, loopVars, preVars, promptVars, genaiVars>>

vars == <<httpVars, pwVars, llmVars, restVars>>

notHttpVars == <<pwVars, llmVars, restVars>>
notPwVars == <<httpVars, llmVars, restVars>>
notLlmVars == <<httpVars, pwVars, restVars>>

-----------------------------------------------------------------------------
(* Bounds of the model.                                                    *)

\* Largest max_retries a caller passes to either fetcher.
MaxRetriesBound == 2

\* Largest retry_delay (seconds) a caller passes to fetch_playwright_content.
MaxRetryDelay == 1

\* Number of requests the event loop serves at the same time.
NumRequests == 2

\* Largest number of calls that check_rate_limit admits, all clients together.
MaxAdmitted == 12

\* Largest reading of the clock, in seconds.
MaxNow == 120

-----------------------------------------------------------------------------
(* Values shared by the functions.                                         *)

None == [kind |-> "None"]

\* FetchError.__init__(message, url, status_code, details): status_code 0
\* stands for None, attempt is the number of the attempt that built it.
FetchError(message, status_code, attempt) ==
    [kind |-> "FetchError", message |-> message,
     status_code |-> status_code, attempt |-> attempt]

Returned(value) == [kind |-> "return", value |-> value]

\* An exception that is not a FetchError, in the same shape.
Exc(kind, message, attempt) ==
    [kind |-> kind, message |-> message, status_code |-> 0, attempt |-> attempt]

\* FetchError(..., error_type=...): __init__ takes message, url, status_code
\* and details only, so the constructor call itself raises TypeError.
FetchErrorWithType(message, error_type, attempt) ==
    Exc("TypeError", "unexpected keyword argument error_type", attempt)

-----------------------------------------------------------------------------
(* Text: Python str and re operations, character by character.             *)

Ch(s, i) == SubSeq(s, i, i)

\* s[i:], 1-based.
From(s, i) == SubSeq(s, i, Len(s))

\* str.isspace for the characters of the model.
Whitespace == {" ", "\n", "\t", "\r", "\f"}

\* \w of re for the characters of the model.
WordChars ==
    {Ch("abcdefghijklmnopqrstuvwxyzABCDEFGHIJKLMNOPQRSTUVWXYZ0123456789_", i) : i \in 1..63}

Digits == {Ch("0123456789", i) : i \in 1..10}

UpperCase == "ABCDEFGHIJKLMNOPQRSTUVWXYZ"
LowerCase == "abcdefghijklmnopqrstuvwxyz"

LowerChar(c) ==
    IF \E i \in 1..Len(UpperCase) : Ch(UpperCase, i) = c
      THEN Ch(LowerCase, CHOOSE i \in 1..Len(UpperCase) : Ch(UpperCase, i) = c)
      ELSE c

RECURSIVE LowerRange(_, _, _)
LowerRange(s, lo, hi) ==
    IF lo > hi THEN ""
    ELSE IF lo = hi THEN LowerChar(Ch(s, lo))
    ELSE LowerRange(s, lo, (lo + hi) \div 2) \o LowerRange(s, (lo + hi) \div 2 + 1, hi)

\* str.lower
Lower(s) == LowerRange(s, 1, Len(s))

\* The least index in lo..hi that is in hits, hi + 1 if none is.
FirstIndex(lo, hi, hits) ==
    IF \E j \in lo..hi : j \in hits
      THEN CHOOSE j \in lo..hi : j \in hits /\ \A k \in lo..(j - 1) : k \notin hits
      ELSE hi + 1

\* The greatest index in lo..hi that is in hits, lo - 1 if none is.
LastIndex(lo, hi, hits) ==
    IF \E j \in lo..hi : j \in hits
      THEN CHOOSE j \in lo..hi : j \in hits /\ \A k \in (j + 1)..hi : k \notin hits
      ELSE lo - 1

\* The length of the longest run of characters of set that starts at s[i].
RunLength(s, i, set) ==
    FirstIndex(i, Len(s), {j \in i..Len(s) : Ch(s, j) \notin set}) - i

\* The length of the longest run of characters outside set that starts at s[i].
RunLengthNot(s, i, set) ==
    FirstIndex(i, Len(s), {j \in i..Len(s) : Ch(s, j) \in set}) - i

\* The length of the longest run of characters of set that ends at s[i].
RunLengthBack(s, i, set) ==
    i - LastIndex(1, i, {j \in 1..i : Ch(s, j) \notin set})

\* str.strip
Strip(s) ==
    LET solid == {j \in 1..Len(s) : Ch(s, j) \notin Whitespace} IN
    SubSeq(s, FirstIndex(1, Len(s), solid), LastIndex(1, Len(s), solid))

\* s[i:].startswith(pat), 1-based.
StartsAt(s, pat, i) ==
    i >= 1 /\ i + Len(pat) - 1 <= Len(s) /\ SubSeq(s, i, i + Len(pat) - 1) = pat

EndsWith(s, pat) == Len(pat) <= Len(s) /\ SubSeq(s, Len(s) - Len(pat) + 1, Len(s)) = pat

\* The least index >= i at which pat occurs in s, 0 if none (str.find).
Find(s, pat, i) ==
    LET Found(j) == IF j > Len(s) THEN 0 ELSE j
    IN  Found(FirstIndex(i, Len(s), {j \in i..Len(s) : StartsAt(s, pat, j)}))

RECURSIVE RemoveCharRange(_, _, _, _)
RemoveCharRange(s, c, lo, hi) ==
    IF lo > hi THEN ""
    ELSE IF lo = hi THEN (IF Ch(s, lo) = c THEN "" ELSE Ch(s, lo))
    ELSE RemoveCharRange(s, c, lo, (lo + hi) \div 2)
         \o RemoveCharRange(s, c, (lo + hi) \div 2 + 1, hi)

\* str.replace(c, '') for a single character c.
RemoveChar(s, c) == RemoveCharRange(s, c, 1, Len(s))

-----------------------------------------------------------------------------
(* extract_event_info: the response repair pipeline (llm.py lines 245-293). *)

Quote == "\""

\* The backquote, which a TLA+ string cannot hold: "~" stands for it, and
\* the texts of the model use "~" for nothing else.
Backquote == "~"
Fence == Backquote \o Backquote \o Backquote

\* Line 250: re.sub(r'^<fence>\w*\n?', '', text).
StripOpeningFence(text) ==
    LET AfterWord(w) == From(text, IF StartsAt(text, "\n", w) THEN w + 1 ELSE w)
    IN  IF StartsAt(text, Fence, 1)
          THEN AfterWord(4 + RunLength(text, 4, WordChars))
          ELSE text

\* Line 251: re.sub(r'\n?<fence>$', '', text); text does not end in a newline here.
StripClosingFence(text) ==
    IF EndsWith(text, Fence)
      THEN LET body == SubSeq(text, 1, Len(text) - 3)
           IN  IF EndsWith(body, "\n") THEN SubSeq(body, 1, Len(body) - 1) ELSE body
      ELSE text

\* Lines 246-252.
CleanResponse(response_text) ==
    Strip(StripClosingFence(StripOpeningFence(Strip(response_text))))

RECURSIVE JsonMatchFrom(_, _)
\* Line 257: re.search(r'\{[^}]*"title"[^}]*\}', text, re.DOTALL), tried at
\* each "{" from position i on: the match runs from that brace to the first
\* "}" after it, provided "title" (with its quotes) occurs in between.
JsonMatchFrom(text, i) ==
    LET Match(open, close, key) ==
            IF open = 0 \/ close = 0 THEN [found |-> FALSE, text |-> ""]
            ELSE IF key # 0 /\ key + 6 < close
              THEN [found |-> TRUE, text |-> SubSeq(text, open, close)]
            ELSE JsonMatchFrom(text, open + 1)
        Opened(open) ==
            Match(open, Find(text, "}", open + 1), Find(text, "\"title\"", open + 1))
    IN  Opened(Find(text, "{", i))

JsonMatch(text) == JsonMatchFrom(text, 1)

\* The character classes of the salvage patterns of lines 267-271:
\* ["\s:] and [^"\n,}].
SalvageSeparators == Whitespace \cup {Quote, ":"}
SalvageStops == {Quote, "\n", ",", "}"}

RECURSIVE SalvageGroup(_, _, _)
\* The group of "key"["\s:]+([^"\n,}]+) matched with the separators ending
\* before position q + k, for the largest k in 1..n that gives a non-empty
\* group (the separators are matched greedily and given back one by one).
SalvageGroup(text, q, k) ==
    LET Group(n) ==
            IF n >= 1
              THEN [found |-> TRUE, text |-> SubSeq(text, q + k, q + k + n - 1)]
              ELSE SalvageGroup(text, q, k - 1)
    IN  IF k = 0 THEN [found |-> FALSE, text |-> ""]
        ELSE Group(RunLengthNot(text, q + k, SalvageStops))

RECURSIVE SalvageFrom(_, _, _)
SalvageFrom(text, key, i) ==
    LET Matched(p, m) == IF m.found THEN m ELSE SalvageFrom(text, key, p + 1)
        After(p, q) ==
            Matched(p, SalvageGroup(text, q, RunLength(text, q, SalvageSeparators)))
        At(p) == IF p = 0 THEN [found |-> FALSE, text |-> ""]
                 ELSE After(p, p + Len(key) + 2)
    IN  At(Find(text, Quote \o key \o Quote, i))

\* Lines 267-271: re.search(r'"<key>"["\s:]+([^"\n,}]+)', text).
SalvageField(text, key) == SalvageFrom(text, key, 1)

\* One f-string of lines 275-279.
SalvagedPair(text, key) ==
    LET Value(m) == IF m.found THEN m.text ELSE "null" IN
    Quote \o key \o "\": \"" \o Value(SalvageField(text, key)) \o Quote

\* Lines 274-280: the JSON text built from the salvaged fields.
SalvagedJson(text) ==
    "{" \o SalvagedPair(text, "title") \o ","
        \o SalvagedPair(text, "description") \o ","
        \o SalvagedPair(text, "start_datetime") \o ","
        \o SalvagedPair(text, "end_datetime") \o ","
        \o SalvagedPair(text, "location") \o "}"

\* Lines 257-285: the matched object, or else the salvaged one.
LocateJson(text) ==
    LET Located(json_match) ==
            IF json_match.found THEN json_match.text ELSE SalvagedJson(text)
    IN  Located(JsonMatch(text))

\* s[i] belongs to a match of ,\s*<closer>, closer excluded: it is the comma
\* or one of the whitespace characters between the comma and the closer.
InDroppedComma(s, i, closer) ==
    \/ /\ Ch(s, i) = ","
       /\ StartsAt(s, closer, i + 1 + RunLength(s, i + 1, Whitespace))
    \/ /\ Ch(s, i) \in Whitespace
       /\ StartsAt(s, closer, i + RunLength(s, i, Whitespace))
       /\ StartsAt(s, ",", i - RunLengthBack(s, i, Whitespace))

RECURSIVE DropCommaRange(_, _, _, _)
DropCommaRange(s, closer, lo, hi) ==
    IF lo > hi THEN ""
    ELSE IF lo = hi THEN (IF InDroppedComma(s, lo, closer) THEN "" ELSE Ch(s, lo))
    ELSE DropCommaRange(s, closer, lo, (lo + hi) \div 2)
         \o DropCommaRange(s, closer, (lo + hi) \div 2 + 1, hi)

\* Lines 291-292: re.sub(r',\s*<closer>', '<closer>', text).
DropCommaBefore(text, closer) == DropCommaRange(text, closer, 1, Len(text))

\* Lines 290-292.
RepairJson(text) ==
    DropCommaBefore(DropCommaBefore(RemoveChar(text, "\n"), "}"), "]")

-----------------------------------------------------------------------------
(* json.loads, for the JSON the model's texts hold. A parsed value is a     *)
(* record: t its type, s its text (a string's characters, a number's or a  *)
(* literal's lexeme), items its elements (a list's values, an object's      *)
(* key/value pairs in parse order).                                         *)

JNull == [t |-> "null", s |-> "null", items |-> <<>>]
JStr(str) == [t |-> "str", s |-> str, items |-> <<>>]
JNum(lexeme) == [t |-> "num", s |-> lexeme, items |-> <<>>]
JBool(lexeme) == [t |-> "bool", s |-> lexeme, items |-> <<>>]
JList(items) == [t |-> "list", s |-> "", items |-> items]
JObj(pairs) == [t |-> "obj", s |-> "", items |-> pairs]
Pair(key, value) == [k |-> key, v |-> value]

ParseFail == [ok |-> FALSE, v |-> JNull, pos |-> 0]
ParseOk(value, pos) == [ok |-> TRUE, v |-> value, pos |-> pos]

JsonWhitespace == {" ", "\t", "\n", "\r"}
ControlChars == {"\n", "\t", "\r", "\f"}

SkipWs(s, i) == i + RunLength(s, i, JsonWhitespace)

\* The character a backslash escape of a JSON string stands for ("" when the
\* escape is invalid). \b and \uXXXX are outside the model's alphabet.
Unescape(c) ==
    CASE c = Quote -> Quote
      [] c = "\\" -> "\\"
      [] c = "/" -> "/"
      [] c = "n" -> "\n"
      [] c = "r" -> "\r"
      [] c = "t" -> "\t"
      [] c = "f" -> "\f"
      [] OTHER -> ""

\* The number of consecutive backslashes that end just before s[j], counted
\* no further back than s[i].
BackslashesBefore(s, i, j) ==
    (j - 1) - LastIndex(i, j - 1, {k \in i..(j - 1) : Ch(s, k) # "\\"})

\* s[k] of a string body that starts at s[i] follows a backslash that
\* escapes it.
IsEscaped(s, i, k) == BackslashesBefore(s, i, k) % 2 = 1

RECURSIVE DecodeRange(_, _, _, _)
DecodeRange(s, i, lo, hi) ==
    IF lo > hi THEN ""
    ELSE IF lo = hi
      THEN (IF IsEscaped(s, i, lo) THEN Unescape(Ch(s, lo))
            ELSE IF Ch(s, lo) = "\\" THEN "" ELSE Ch(s, lo))
    ELSE DecodeRange(s, i, lo, (lo + hi) \div 2)
         \o DecodeRange(s, i, (lo + hi) \div 2 + 1, hi)

\* json.decoder.scanstring (strict): s[i] follows the opening quote. The
\* string ends at the first quote that no backslash escapes; a control
\* character, an invalid escape or a missing closing quote is an error.
ScanString(s, i) ==
    LET Body(end) ==
            IF end > Len(s) THEN ParseFail
            ELSE IF \E k \in i..(end - 1) :
                       \/ ~IsEscaped(s, i, k) /\ Ch(s, k) \in ControlChars
                       \/ IsEscaped(s, i, k) /\ Unescape(Ch(s, k)) = ""
                   THEN ParseFail
            ELSE ParseOk(JStr(DecodeRange(s, i, i, end - 1)), end + 1)
    IN  Body(FirstIndex(i, Len(s),
                        {j \in i..Len(s) : Ch(s, j) = Quote /\ ~IsEscaped(s, i, j)}))

\* json.scanner NUMBER_RE: (-?(?:0|[1-9]\d*))(\.\d+)?([eE][-+]?\d+)?
ScanNumber(s, i) ==
    LET neg == IF StartsAt(s, "-", i) THEN 1 ELSE 0
        j == i + neg
        int == IF StartsAt(s, "0", j) THEN 1 ELSE RunLength(s, j, Digits)
        f == j + int
        frac == IF StartsAt(s, ".", f) /\ RunLength(s, f + 1, Digits) >= 1
                  THEN 1 + RunLength(s, f + 1, Digits) ELSE 0
        e == f + frac
        sign == IF e + 1 <= Len(s) /\ Ch(s, e + 1) \in {"+", "-"} THEN 1 ELSE 0
        exp == IF e <= Len(s) /\ Ch(s, e) \in {"e", "E"}
                    /\ RunLength(s, e + 1 + sign, Digits) >= 1
                 THEN 1 + sign + RunLength(s, e + 1 + sign, Digits) ELSE 0
    IN  IF int = 0 THEN ParseFail
        ELSE ParseOk(JNum(SubSeq(s, i, e + exp - 1)), e + exp)

RECURSIVE ParseValue(_, _)
RECURSIVE ParseMembers(_, _, _)
RECURSIVE ParseElements(_, _, _)

\* json.decoder.JSONObject, after a value: s[next] is "}", which ends the
\* object, or a "," that a quoted key must follow.
AfterMember(s, next, pairs) ==
    IF StartsAt(s, "}", next) THEN ParseOk(JObj(pairs), next + 1)
    ELSE IF StartsAt(s, ",", next) /\ StartsAt(s, Quote, SkipWs(s, next + 1))
      THEN ParseMembers(s, SkipWs(s, next + 1), pairs)
    ELSE ParseFail

\* json.decoder.JSONObject: the value of the key has been scanned.
MemberValue(s, key, value, pairs) ==
    IF ~value.ok THEN ParseFail
    ELSE AfterMember(s, SkipWs(s, value.pos), Append(pairs, Pair(key, value.v)))

\* json.decoder.JSONObject: the key has been scanned, a colon must follow.
MemberKey(s, key, pairs) ==
    IF ~key.ok \/ ~StartsAt(s, ":", SkipWs(s, key.pos)) THEN ParseFail
    ELSE MemberValue(s, key.v.s, ParseValue(s, SkipWs(s, SkipWs(s, key.pos) + 1)), pairs)

\* json.decoder.JSONObject: s[i] is the opening quote of the next key.
ParseMembers(s, i, pairs) == MemberKey(s, ScanString(s, i + 1), pairs)

\* json.decoder.JSONArray, after an element: s[next] is "]", which ends the
\* list, or a "," that the next element follows.
AfterElement(s, next, items) ==
    IF StartsAt(s, "]", next) THEN ParseOk(JList(items), next + 1)
    ELSE IF StartsAt(s, ",", next) THEN ParseElements(s, SkipWs(s, next + 1), items)
    ELSE ParseFail

\* json.decoder.JSONArray: the element has been scanned.
ElementValue(s, value, items) ==
    IF ~value.ok THEN ParseFail
    ELSE AfterElement(s, SkipWs(s, value.pos), Append(items, value.v))

\* json.decoder.JSONArray: s[i] starts the next element.
ParseElements(s, i, items) == ElementValue(s, ParseValue(s, i), items)

\* json.decoder.JSONObject, after the opening brace.
ParseObject(s, j) ==
    IF StartsAt(s, "}", j) THEN ParseOk(JObj(<<>>), j + 1)
    ELSE IF StartsAt(s, Quote, j) THEN ParseMembers(s, j, <<>>)
    ELSE ParseFail

\* json.decoder.JSONArray, after the opening bracket.
ParseArray(s, j) ==
    IF StartsAt(s, "]", j) THEN ParseOk(JList(<<>>), j + 1)
    ELSE ParseElements(s, j, <<>>)

\* json.scanner.py_make_scanner._scan_once: the value that starts at s[i].
\* A number starts with none of the characters tested before it.
ParseValue(s, i) ==
    IF i > Len(s) THEN ParseFail
    ELSE IF StartsAt(s, Quote, i) THEN ScanString(s, i + 1)
    ELSE IF StartsAt(s, "{", i) THEN ParseObject(s, SkipWs(s, i + 1))
    ELSE IF StartsAt(s, "[", i) THEN ParseArray(s, SkipWs(s, i + 1))
    ELSE IF StartsAt(s, "null", i) THEN ParseOk(JNull, i + 4)
    ELSE IF StartsAt(s, "true", i) THEN ParseOk(JBool("true"), i + 4)
    ELSE IF StartsAt(s, "false", i) THEN ParseOk(JBool("false"), i + 5)
    ELSE IF StartsAt(s, "NaN", i) THEN ParseOk(JNum("NaN"), i + 3)
    ELSE IF StartsAt(s, "Infinity", i) THEN ParseOk(JNum("Infinity"), i + 8)
    ELSE IF StartsAt(s, "-Infinity", i) THEN ParseOk(JNum("-Infinity"), i + 9)
    ELSE ScanNumber(s, i)

\* The value json.loads makes of a scanned value: nothing but whitespace may
\* follow it.
WholeText(text, value) ==
    IF value.ok /\ SkipWs(text, value.pos) = Len(text) + 1 THEN value ELSE ParseFail

\* json.loads(text): one value and nothing but whitespace around it.
Loads(text) == WholeText(text, ParseValue(text, SkipWs(text, 1)))

RECURSIVE Get(_, _, _)
\* dict.get(key) on the pairs of a parsed object: the last pair with the key
\* (a later duplicate replaces an earlier one), None when there is none.
Get(pairs, key, n) ==
    IF n = 0 THEN JNull
    ELSE IF pairs[n].k = key THEN pairs[n].v
    ELSE Get(pairs, key, n - 1)

Keys(pairs) == {pairs[n].k : n \in 1..Len(pairs)}

-----------------------------------------------------------------------------
(* extract_event_info: parsing and field normalization (llm.py 232-354).   *)

\* An LLMError or one of its subclasses (lines 16-67), in the shape of Exc.
LLMErrorKinds == {"LLMError", "APIKeyError", "ContentFilterError", "ResponseParsingError"}

\* Line 336.
RequiredFields == <<"title", "description", "start_datetime", "end_datetime", "location">>

\* Line 346: the strings that stand for no value.
NoValueTokens == {"none", "null", "not found", ""}

MutNormalizeCaseSensitive(value) ==
    IF value = JNull \/ value = JStr("null") \/ value = JStr("")
      THEN JNull
    ELSE IF value.t = "str"
      THEN IF Strip(value.s) \in NoValueTokens THEN JNull ELSE JStr(Strip(value.s))
    ELSE value

\* Lines 342-351: the cleaned value of one field.
NormalizeValue(value) ==
    IF value = JNull \/ value = JStr("null") \/ value = JStr("")
      THEN JNull
    ELSE IF value.t = "str"
      THEN LET cleaned_value == Strip(value.s) IN
           IF Lower(cleaned_value) \in NoValueTokens THEN JNull ELSE JStr(cleaned_value)
    ELSE value

\* dict.__setitem__: replaces the value of the key, or adds the pair.
SetItem(pairs, key, value) ==
    IF key \in Keys(pairs)
      THEN [n \in 1..Len(pairs) |-> IF pairs[n].k = key THEN Pair(key, value) ELSE pairs[n]]
      ELSE Append(pairs, Pair(key, value))

MutCleanedStartsFromResult(result) == result

\* Line 337: cleaned_result = {}.
EmptyCleanedResult(result) == <<>>

RECURSIVE CleanFields(_, _, _)
\* Lines 339-351: the loop over required_fields, from field number n on.
CleanFields(result, cleaned_result, n) ==
    IF n > Len(RequiredFields) THEN cleaned_result
    ELSE CleanFields(result,
                     SetItem(cleaned_result, RequiredFields[n],
                             NormalizeValue(Get(result, RequiredFields[n], Len(result)))),
                     n + 1)

\* Lines 335-354: the record returned for the parsed object.
CleanedResult(result) == CleanFields(result, EmptyCleanedResult(result), 1)

MutEmptyOnlyWithoutText(response_text) == response_text = ""

\* Lines 234-243: if not response.text or not response.text.strip().
IsEmptyResponse(response_text) == Strip(response_text) = ""

\* Lines 245-297: the text handed to json.loads.
JsonText(response_text) == RepairJson(LocateJson(CleanResponse(response_text)))

\* Lines 297-333: the parsed object (a dict), or the error of the attempt:
\* a one-element list holding an object is unwrapped, any other value that is
\* not an object is refused.
ResultOf(parsed) ==
    IF ~parsed.ok
      THEN [ok |-> FALSE, error |-> "Failed to parse response as JSON", result |-> <<>>]
    ELSE IF parsed.v.t = "obj"
      THEN [ok |-> TRUE, error |-> "", result |-> parsed.v.items]
    ELSE IF parsed.v.t = "list" /\ Len(parsed.v.items) = 1 /\ parsed.v.items[1].t = "obj"
      THEN [ok |-> TRUE, error |-> "", result |-> parsed.v.items[1].items]
    ELSE [ok |-> FALSE, error |-> "Expected a JSON object", result |-> <<>>]

\* Lines 234-333: the result of json.loads on the repaired text; an empty
\* response is refused before any parsing.
ParsedResult(response_text) ==
    IF IsEmptyResponse(response_text)
      THEN [ok |-> FALSE, error |-> "Empty response from Gemini API", result |-> <<>>]
      ELSE ResultOf(Loads(JsonText(response_text)))

\* Lines 232-354: what one attempt makes of the response text: the record it
\* returns, or the ResponseParsingError it raises.
AttemptOutcome(parsed, attempt) ==
    IF parsed.ok
      THEN Returned(CleanedResult(parsed.result))
      ELSE Exc("ResponseParsingError", parsed.error, attempt)

ExtractFromText(response_text, attempt) ==
    AttemptOutcome(ParsedResult(response_text), attempt)

-----------------------------------------------------------------------------
(* json.dumps, which writes the well-formed responses of the model.        *)

EscapeChar(c) ==
    CASE c = Quote -> "\\\""
      [] c = "\\" -> "\\\\"
      [] c = "\n" -> "\\n"
      [] c = "\r" -> "\\r"
      [] c = "\t" -> "\\t"
      [] c = "\f" -> "\\f"
      [] OTHER -> c

RECURSIVE EscapeRange(_, _, _)
EscapeRange(str, lo, hi) ==
    IF lo > hi THEN ""
    ELSE IF lo = hi THEN EscapeChar(Ch(str, lo))
    ELSE EscapeRange(str, lo, (lo + hi) \div 2) \o EscapeRange(str, (lo + hi) \div 2 + 1, hi)

Escape(str) == EscapeRange(str, 1, Len(str))

RECURSIVE Dumps(_)
RECURSIVE DumpItems(_, _, _)

\* json.dumps(value) with the default separators.
Dumps(value) ==
    CASE value.t = "str" -> Quote \o Escape(value.s) \o Quote
      [] value.t = "list" -> "[" \o DumpItems(value.items, 1, FALSE) \o "]"
      [] value.t = "obj" -> "{" \o DumpItems(value.items, 1, TRUE) \o "}"
      [] OTHER -> value.s

DumpItems(items, n, keyed) ==
    IF n > Len(items) THEN ""
    ELSE (IF n > 1 THEN ", " ELSE "")
         \o (IF keyed
               THEN Quote \o Escape(items[n].k) \o "\": " \o Dumps(items[n].v)
               ELSE Dumps(items[n]))
         \o DumpItems(items, n + 1, keyed)

\* The object with the five fields, in the order of the prompt.
EventObject(title, description, start_datetime, end_datetime, location) ==
    JObj(<<Pair("title", title), Pair("description", description),
           Pair("start_datetime", start_datetime),
           Pair("end_datetime", end_datetime), Pair("location", location)>>)

-----------------------------------------------------------------------------
(* fetch_http_content                                                      *)

\* What one requests.get call can do: answer with a status, or raise.
StatusCodes == {200, 301, 400, 404, 500, 503}
TransportFailures == {"Timeout", "ConnectionError", "RequestException", "Exception"}

Response(status) == [kind |-> "response", status |-> status, exc |-> "none"]
Raises(exc) == [kind |-> "exception", status |-> 0, exc |-> exc]

HttpOutcomes == {Response(s) : s \in StatusCodes} \cup {Raises(e) : e \in TransportFailures}

IsServerError(o) == o.kind = "response" /\ 500 <= o.status /\ o.status < 600
IsClientError(o) == o.kind = "response" /\ 400 <= o.status /\ o.status < 500
IsSuccess(o) == o.kind = "response" /\ o.status < 400
IsTransportFailure(o) == o.kind = "exception"
IsRetryable(o) == IsServerError(o) \/ IsTransportFailure(o)

\* The message of the FetchError an except clause builds (lines 169-187).
TransportMessage(exc) ==
    CASE exc = "Timeout" -> "Request timed out"
      [] exc = "ConnectionError" -> "Connection error"
      [] exc = "RequestException" -> "Request error"
      [] OTHER -> "Unexpected error"

\* The client addresses of the model (request.client.host).
Clients == {"10.0.0.1", "10.0.0.2"}

\* The requests the event loop serves at the same time.
LoopRequests == 1..NumRequests

IdleRoute ==
    /\ r_pc = "idle"
    /\ r_pydantic_1 = TRUE
    /\ r_url = ""
    /\ r_use_playwright = FALSE
    /\ r_key_length = 0
    /\ r_instructions_length = 0
    /\ r_stages = <<>>
    /\ r_outcomes = <<>>
    /\ r_response = None
    /\ r_details = ""

IdleRate ==
    /\ k_now = 0
    /\ k_request_counts = [client \in Clients |-> <<>>]
    /\ k_admitted = [client \in Clients |-> <<>>]
    /\ k_last = None

IdleLoop ==
    /\ e_pc = [request \in LoopRequests |-> "idle"]
    /\ e_mode = [request \in LoopRequests |-> "simple"]
    /\ e_left = [request \in LoopRequests |-> 0]
    /\ e_thread = 0

IdlePre ==
    /\ q_pc = "idle"
    /\ q_html = "str"
    /\ q_strategy = "markdownify"
    /\ q_selectors_ok = TRUE
    /\ q_max_length = 0
    /\ q_converter = ""
    /\ q_markdown = ""
    /\ q_digest = ""
    /\ q_cause = ""
    /\ q_out = None

IdlePrompt ==
    /\ m_pc = "idle"
    /\ m_content = ""
    /\ m_custom_instructions = <<>>
    /\ m_prompt = ""
    /\ m_out = None

\* The api_key arguments of the concurrent calls, one call for each.
ApiKeys == {"key-a", "key-b"}

IdleGenai ==
    /\ g_api_key = ""
    /\ g_pc = [call \in ApiKeys |-> "idle"]
    /\ g_attempt = [call \in ApiKeys |-> 0]
    /\ g_client = [call \in ApiKeys |-> ""]
    /\ g_invocations = {}

IdleRest == IdleRoute /\ IdleRate /\ IdleLoop /\ IdlePre /\ IdlePrompt /\ IdleGenai

IdlePw ==
    /\ p_pc = "idle"
    /\ p_max_retries = 0
    /\ p_retry_delay = 0
    /\ p_attempt = 0
    /\ p_browsers = <<>>
    /\ p_contexts = <<>>
    /\ p_browser = 0
    /\ p_context = 0
    /\ p_pending = None
    /\ p_hist = <<>>
    /\ p_sleeps = <<>>
    /\ p_content = 0
    /\ p_out = None

IdleLlm ==
    /\ l_pc = "idle"
    /\ l_attempt = 1
    /\ l_calls = 0
    /\ l_text = ""
    /\ l_object = <<>>
    /\ l_result = <<>>
    /\ l_outcome = None
    /\ l_hist = <<>>
    /\ l_waits = 0
    /\ l_error = None
    /\ l_out = None

IdleHttp ==
    /\ h_pc = "idle"
    /\ h_url_ok = TRUE
    /\ h_max_retries = 0
    /\ h_retries = 0
    /\ h_last_error = None
    /\ h_response = None
    /\ h_requests = 0
    /\ h_sleeps = 0
    /\ h_hist = <<>>
    /\ h_out = None

InitHttp ==
    /\ IdlePw
    /\ IdleLlm
    /\ IdleRest
    /\ h_pc = "validate"
    /\ h_url_ok \in BOOLEAN
    /\ h_max_retries \in 0..MaxRetriesBound
    /\ h_retries = 0
    /\ h_last_error = None
    /\ h_response = None
    /\ h_requests = 0
    /\ h_sleeps = 0
    /\ h_hist = <<>>
    /\ h_out = None

\* Lines 107-118: URL validation, then retries = 0, last_error = None.
HttpValidate ==
    /\ UNCHANGED notHttpVars
    /\ h_pc = "validate"
    /\ IF h_url_ok
         THEN /\ h_pc' = "loop"
              /\ h_out' = h_out
         ELSE /\ h_pc' = "raised"
              /\ h_out' = FetchError("Invalid URL format", 0, 0)
    /\ UNCHANGED <<h_url_ok, h_max_retries, h_retries, h_last_error,
                   h_response, h_requests, h_sleeps, h_hist>>

\* Line 120: the loop test.
LoopGuard(retries, max_retries) == retries <= max_retries

\* Lines 120-129: one more iteration issues requests.get; lines 196-202: when
\* the loop test fails the function raises last_error (or a generic error).
HttpLoop ==
    /\ UNCHANGED notHttpVars
    /\ h_pc = "loop"
    /\ IF LoopGuard(h_retries, h_max_retries)
         THEN /\ \E o \in HttpOutcomes :
                   /\ h_response' = o
                   /\ h_hist' = Append(h_hist, o)
              /\ h_requests' = h_requests + 1
              /\ h_pc' = "got"
              /\ h_out' = h_out
         ELSE /\ h_out' = IF h_last_error # None
                            THEN h_last_error
                            ELSE FetchError("Failed to fetch", 0, h_requests)
              /\ h_pc' = "raised"
              /\ UNCHANGED <<h_response, h_hist, h_requests>>
    /\ UNCHANGED <<h_url_ok, h_max_retries, h_retries, h_last_error, h_sleeps>>

MutRetryServerErrorOneFewer(status, retries, max_retries) ==
    500 <= status /\ status < 600 /\ retries + 1 < max_retries

MutRetryServerErrorAnyError(status, retries, max_retries) ==
    400 <= status /\ retries < max_retries

MutRetryNotFound(status, retries, max_retries) ==
    (status = 404 \/ (500 <= status /\ status < 600)) /\ retries < max_retries

\* Line 140: only a 5xx with retry budget left is retried.
RetryServerError(status, retries, max_retries) ==
    500 <= status /\ status < 600 /\ retries < max_retries

MutCountRetryForgotten(retries) == retries

\* Lines 146 and 191: retries += 1, for a 5xx and for a transport failure alike.
CountRetry(retries) == retries + 1

\* Line 190: a transport failure is retried while budget is left.
RetryTransport(retries, max_retries) == retries < max_retries

\* Lines 136-167: a response arrived.
HttpOnResponse ==
    /\ UNCHANGED notHttpVars
    /\ h_pc = "got"
    /\ h_response.kind = "response"
    /\ IF h_response.status >= 400
         THEN IF RetryServerError(h_response.status, h_retries, h_max_retries)
                THEN /\ h_last_error' = FetchError("Server error", h_response.status, h_requests)
                     /\ h_retries' = CountRetry(h_retries)
                     /\ h_pc' = "sleep"
                     /\ h_out' = h_out
                ELSE \* raised inside the try, re-raised by "except FetchError"
                     /\ h_out' = FetchError("HTTP error", h_response.status, h_requests)
                     /\ h_pc' = "raised"
                     /\ UNCHANGED <<h_last_error, h_retries>>
         ELSE /\ h_out' = Returned(h_requests)
              /\ h_pc' = "returned"
              /\ UNCHANGED <<h_last_error, h_retries>>
    /\ UNCHANGED <<h_url_ok, h_max_retries, h_response, h_requests,
                   h_sleeps, h_hist>>

MutKeepEarlierError(last_error, error) ==
    IF last_error # None THEN last_error ELSE error

\* Lines 170, 174, 178 and 186: last_error = FetchError(...), which replaces
\* the error an earlier iteration recorded.
RecordError(last_error, error) == error

\* Lines 169-194: requests.get raised; the except clause records last_error,
\* then a retry is scheduled, or the loop is left (break) and lines 196-199
\* raise last_error.
HttpOnException ==
    /\ UNCHANGED notHttpVars
    /\ h_pc = "got"
    /\ h_response.kind = "exception"
    /\ LET err == FetchError(TransportMessage(h_response.exc), 0, h_requests) IN
       /\ h_last_error' = RecordError(h_last_error, err)
       /\ IF RetryTransport(h_retries, h_max_retries)
            THEN /\ h_retries' = CountRetry(h_retries)
                 /\ h_pc' = "sleep"
                 /\ h_out' = h_out
            ELSE /\ h_out' = h_last_error'
                 /\ h_pc' = "raised"
                 /\ h_retries' = h_retries
    /\ UNCHANGED <<h_url_ok, h_max_retries, h_response, h_requests,
                   h_sleeps, h_hist>>

\* Lines 147 and 192: time.sleep(retry_delay), then the next iteration.
HttpSleep ==
    /\ UNCHANGED notHttpVars
    /\ h_pc = "sleep"
    /\ h_sleeps' = h_sleeps + 1
    /\ h_pc' = "loop"
    /\ UNCHANGED <<h_url_ok, h_max_retries, h_retries, h_last_error,
                   h_response, h_requests, h_hist, h_out>>

NextHttp ==
    \/ HttpValidate
    \/ HttpLoop
    \/ HttpOnResponse
    \/ HttpOnException
    \/ HttpSleep

SpecHttp == InitHttp /\ [][NextHttp]_vars

HttpDone == h_pc \in {"returned", "raised"}

\* The outcomes of the requests issued so far, the one in hand included once
\* it has been handled.
Handled == IF h_pc = "got" THEN SubSeq(h_hist, 1, Len(h_hist) - 1) ELSE h_hist

AllServerErrors(hist) == \A k \in 1..Len(hist) : IsServerError(hist[k])

\* C1: against a server that answers every request with a 5xx, a call with
\* max_retries = N issues exactly N + 1 requests and then raises a FetchError
\* carrying the status code of the response; never more than N + 1 requests.
C1_ServerErrorAttempts ==
    /\ AllServerErrors(h_hist) => h_requests <= h_max_retries + 1
    /\ (HttpDone /\ h_hist # <<>> /\ AllServerErrors(h_hist)) =>
          /\ h_requests = h_max_retries + 1
          /\ h_pc = "raised"
          /\ h_out.kind = "FetchError"
          /\ h_out.status_code = h_hist[Len(h_hist)].status

\* max_retries = 2 and three HTTP 500 answers: raised after 3 requests.
C1_Witness ==
    /\ h_pc = "raised"
    /\ h_max_retries = 2
    /\ h_hist = <<Response(500), Response(500), Response(500)>>
    /\ h_requests = 3

\* C2: a response with a status in [400,500) makes the call raise a FetchError
\* with that status at once: no request and no backoff sleep follows it,
\* whatever retry budget remains.
C2_ClientErrorImmediate ==
    \A k \in 1..Len(Handled) :
        IsClientError(h_hist[k]) =>
            /\ k = Len(h_hist)
            /\ h_requests = k
            /\ h_sleeps = k - 1
            /\ h_pc = "raised"
            /\ h_out = FetchError("HTTP error", h_hist[k].status, k)

\* A 404 on the first request with retry budget left: one request, no sleep.
C2_Witness ==
    /\ h_pc = "raised"
    /\ h_max_retries = 2
    /\ h_hist = <<Response(404)>>
    /\ h_requests = 1
    /\ h_sleeps = 0

\* C3: 5xx responses and transport failures share one retry budget: a call
\* never issues more than max_retries + 1 requests.
C3_SharedRetryBudget ==
    /\ h_requests <= h_max_retries + 1
    /\ h_requests = Len(h_hist)

\* A call that used its whole budget on a mix of 5xx and transport failures.
C3_Witness ==
    /\ h_pc = "raised"
    /\ h_max_retries >= 1
    /\ h_requests = h_max_retries + 1
    /\ \E i, j \in 1..Len(h_hist) :
          IsServerError(h_hist[i]) /\ IsTransportFailure(h_hist[j])

\* The outcome of the request issued last.
LastRequest == h_hist[h_requests]

\* C17: a FetchError raised after at least one request describes the last
\* request made: it carries the status code of the last response, or the
\* message of the transport failure of the last request, whatever the
\* earlier requests met.
C17_LastErrorSurfaced ==
    (h_pc = "raised" /\ h_requests >= 1) =>
        /\ h_out.kind = "FetchError"
        /\ h_out.attempt = h_requests
        /\ LastRequest.kind = "response" =>
              /\ h_out.status_code = LastRequest.status
              /\ h_out.message = "HTTP error"
        /\ LastRequest.kind = "exception" =>
              h_out.message = TransportMessage(LastRequest.exc)

\* A 503, then a timeout, then a connection error with no retry left: the
\* connection error is raised.
C17_Witness ==
    /\ h_pc = "raised"
    /\ h_max_retries = 2
    /\ h_hist = <<Response(503), Raises("Timeout"), Raises("ConnectionError")>>
    /\ h_out = FetchError("Connection error", 0, 3)

\* C18: a call returns the body of the last response it received, which is
\* the first one with a status below 400; every request before it met a 5xx
\* or a transport failure; the call has issued as many requests as there are
\* outcomes, at most max_retries + 1, and issues none once it has returned.
C18_ReturnsFirstSuccess ==
    h_pc = "returned" =>
        /\ h_requests = Len(h_hist)
        /\ h_requests <= h_max_retries + 1
        /\ IsSuccess(LastRequest)
        /\ h_out = Returned(h_requests)
        /\ \A k \in 1..(h_requests - 1) : IsRetryable(h_hist[k])
        /\ ~ENABLED NextHttp

\* A 500, then a timeout, then a 200 on the third request.
C18_Witness ==
    /\ h_pc = "returned"
    /\ h_hist = <<Response(500), Raises("Timeout"), Response(200)>>
    /\ h_requests = 3
    /\ h_out = Returned(3)

-----------------------------------------------------------------------------
(* fetch_playwright_content                                                *)

\* A browser or a context: closed once a close() call on it has succeeded;
\* close_calls counts the close() calls made on it, failed ones included.
Resource == [closed |-> FALSE, close_calls |-> 0]

CloseCalled(r, ok) == [closed |-> r.closed \/ ok, close_calls |-> r.close_calls + 1]

\* What the body of one attempt (lines 265-383) can come to, once the context
\* exists: the first check that fails, or success.
PageOutcomes ==
    {"ok", "no_response", "http_404", "http_500", "navigation_error",
     "load_state_timeout", "blocked_selector", "expected_missing",
     "evaluate_error", "required_missing", "error_text", "content_error",
     "content_short", "other_exception"}

\* The outcomes in which a Playwright call of the body raises PlaywrightError.
PlaywrightFailures ==
    {"navigation_error", "load_state_timeout", "evaluate_error", "content_error"}

\* Lines 385-391: except PlaywrightError -> raise FetchError(..., error_type='DYNAMIC').
OnPlaywrightError(attempt) == FetchErrorWithType("Playwright error", "DYNAMIC", attempt)

\* Line 376: the least stripped length of content that is returned.
MinContentLength == 100

\* The stripped lengths of what page.content() gives; 0 stands for None, for
\* the empty string and for whitespace alone.
ContentLengths == {0, 99, 100, 5000}

MutTooShortOffByOne(length) == length < MinContentLength - 1

\* Line 376: if not content or len(content.strip()) < 100.
TooShort(length) == length < MinContentLength

\* Lines 375-383: the outcome of an attempt that gets as far as page.content().
ContentCheck(length) == IF TooShort(length) THEN "content_short" ELSE "ok"

\* A FetchError raised by the body of an attempt: current_attempt is the
\* value of details['current_attempt'], 0 when details has no such key.
AttemptError(message, status_code, attempt, current_attempt) ==
    [kind |-> "FetchError", message |-> message, status_code |-> status_code,
     attempt |-> attempt, current_attempt |-> current_attempt]

\* What the body raises (or returns) for an outcome, as it leaves the inner
\* try statement and before the finally clause runs.
BodyResult(outcome, attempt) ==
    CASE outcome = "ok" -> Returned(attempt)
      [] outcome = "no_response" ->
            AttemptError("Failed to get page response", 0, attempt, attempt)
      [] outcome = "http_404" -> AttemptError("HTTP error response", 404, attempt, attempt)
      [] outcome = "http_500" -> AttemptError("HTTP error response", 500, attempt, attempt)
      [] outcome = "blocked_selector" ->
            FetchErrorWithType("Content access blocked", "BLOCKED", attempt)
      [] outcome = "expected_missing" ->
            AttemptError("Failed to find expected content", 0, attempt, 0)
      [] outcome = "required_missing" ->
            FetchErrorWithType("Required content not found", "VALIDATION", attempt)
      [] outcome = "error_text" ->
            FetchErrorWithType("Access error", "BLOCKED", attempt)
      [] outcome = "content_short" ->
            AttemptError("Retrieved content is too short or empty", 0, attempt, 0)
      [] outcome \in PlaywrightFailures -> OnPlaywrightError(attempt)
      [] OTHER -> Exc("Exception", outcome, attempt)

InitPw ==
    /\ IdleHttp
    /\ IdleLlm
    /\ IdleRest
    /\ p_pc = "attempt"
    /\ p_max_retries \in 0..MaxRetriesBound
    /\ p_retry_delay \in 0..MaxRetryDelay
    /\ p_attempt = 0
    /\ p_browsers = <<>>
    /\ p_contexts = <<>>
    /\ p_browser = 0
    /\ p_context = 0
    /\ p_pending = None
    /\ p_hist = <<>>
    /\ p_sleeps = <<>>
    /\ p_content = 0
    /\ p_out = None

\* Line 253: browser = await playwright_aws_lambda.async_playwright(), outside
\* the inner try: a failure goes straight to the outer except clauses.
PwLaunch ==
    /\ UNCHANGED notPwVars
    /\ p_pc = "attempt"
    /\ \/ /\ p_browsers' = Append(p_browsers, Resource)
          /\ p_browser' = Len(p_browsers) + 1
          /\ p_pc' = "context"
          /\ UNCHANGED <<p_pending, p_hist>>
       \/ /\ p_pending' = Exc("PlaywrightError", "launch_failure", p_attempt + 1)
          /\ p_hist' = Append(p_hist, "launch_failure")
          /\ p_pc' = "handler"
          /\ UNCHANGED <<p_browsers, p_browser>>
    /\ UNCHANGED <<p_max_retries, p_retry_delay, p_content, p_attempt, p_contexts,
                   p_context, p_sleeps, p_out>>

\* Lines 257-263: context = await browser.new_context(...). On failure the
\* local context keeps the value an earlier attempt gave it.
PwNewContext ==
    /\ UNCHANGED notPwVars
    /\ p_pc = "context"
    /\ \/ /\ p_contexts' = Append(p_contexts, Resource)
          /\ p_context' = Len(p_contexts) + 1
          /\ p_pc' = "page"
          /\ UNCHANGED <<p_pending, p_hist>>
       \/ /\ p_pending' = OnPlaywrightError(p_attempt + 1)
          /\ p_hist' = Append(p_hist, "context_failure")
          /\ p_pc' = "finally"
          /\ UNCHANGED <<p_contexts, p_context>>
    /\ UNCHANGED <<p_max_retries, p_retry_delay, p_content, p_attempt, p_browsers,
                   p_browser, p_sleeps, p_out>>

\* Lines 265-391: the rest of the inner try statement.
PwPage ==
    /\ UNCHANGED notPwVars
    /\ p_pc = "page"
    /\ \/ \E outcome \in PageOutcomes \ {"ok", "content_short"} :
            /\ p_pending' = BodyResult(outcome, p_attempt + 1)
            /\ p_hist' = Append(p_hist, outcome)
            /\ UNCHANGED p_content
       \/ \E length \in ContentLengths :
            /\ p_content' = length
            /\ p_pending' = BodyResult(ContentCheck(length), p_attempt + 1)
            /\ p_hist' = Append(p_hist, ContentCheck(length))
    /\ p_pc' = "finally"
    /\ UNCHANGED <<p_max_retries, p_retry_delay, p_attempt, p_browsers,
                   p_contexts, p_browser, p_context, p_sleeps, p_out>>

\* Line 394: if 'context' in locals().
ContextBound(context) == context # 0

\* Lines 394-395: await context.close(); when it raises, the exception
\* replaces whatever was in flight and the rest of the finally clause is
\* skipped.
PwCloseContext ==
    /\ UNCHANGED notPwVars
    /\ p_pc = "finally"
    /\ IF ContextBound(p_context)
         THEN \/ /\ p_contexts' = [p_contexts EXCEPT ![p_context] = CloseCalled(@, TRUE)]
                 /\ p_pc' = "finally_browser"
                 /\ UNCHANGED p_pending
              \/ /\ p_contexts' = [p_contexts EXCEPT ![p_context] = CloseCalled(@, FALSE)]
                 /\ p_pending' = Exc("PlaywrightError", "context_close_failure", p_attempt + 1)
                 /\ p_pc' = "handler"
         ELSE /\ p_pc' = "finally_browser"
              /\ UNCHANGED <<p_contexts, p_pending>>
    /\ UNCHANGED <<p_max_retries, p_retry_delay, p_content, p_attempt, p_browsers,
                   p_browser, p_context, p_hist, p_sleeps, p_out>>

\* Lines 396-397: await browser.close().
PwCloseBrowser ==
    /\ UNCHANGED notPwVars
    /\ p_pc = "finally_browser"
    /\ \/ /\ p_browsers' = [p_browsers EXCEPT ![p_browser] = CloseCalled(@, TRUE)]
          /\ UNCHANGED p_pending
       \/ /\ p_browsers' = [p_browsers EXCEPT ![p_browser] = CloseCalled(@, FALSE)]
          /\ p_pending' = Exc("PlaywrightError", "browser_close_failure", p_attempt + 1)
    /\ p_pc' = "handler"
    /\ UNCHANGED <<p_max_retries, p_retry_delay, p_content, p_attempt, p_contexts,
                   p_browser, p_context, p_hist, p_sleeps, p_out>>

\* Line 400: a FetchError is retried while attempt < max_retries.
RetryAttempt(attempt, max_retries) == attempt < max_retries

MutCatchAnyError(pending) == TRUE

MutCatchServerErrors(pending) ==
    pending.kind = "FetchError" /\ pending.status_code \notin 400..499

\* Line 399: except FetchError, the clause that retries.
CaughtForRetry(pending) == pending.kind = "FetchError"

MutConstantBackoff(retry_delay, attempt) == retry_delay

\* Lines 383 and 399-412: the attempt returns its content, or the outer
\* except clauses see what it raised.
PwHandle ==
    /\ UNCHANGED notPwVars
    /\ p_pc = "handler"
    /\ IF p_pending.kind = "return"
         THEN /\ p_out' = p_pending
              /\ p_pc' = "returned"
         ELSE IF CaughtForRetry(p_pending)
                THEN IF RetryAttempt(p_attempt, p_max_retries)
                       THEN /\ p_pc' = "sleep"
                            /\ p_out' = p_out
                       ELSE /\ p_out' = p_pending
                            /\ p_pc' = "raised"
                ELSE /\ p_out' = FetchErrorWithType("Unexpected error", "DYNAMIC", p_attempt + 1)
                     /\ p_pc' = "raised"
    /\ UNCHANGED <<p_max_retries, p_retry_delay, p_content, p_attempt, p_browsers,
                   p_contexts, p_browser, p_context, p_pending, p_hist,
                   p_sleeps>>

\* Line 402: the wait before the next attempt.
Backoff(retry_delay, attempt) == retry_delay * (attempt + 1)

\* Lines 402-403: await asyncio.sleep(...); continue.
PwSleep ==
    /\ UNCHANGED notPwVars
    /\ p_pc = "sleep"
    /\ p_sleeps' = Append(p_sleeps, Backoff(p_retry_delay, p_attempt))
    /\ p_attempt' = p_attempt + 1
    /\ p_pending' = None
    /\ p_pc' = "attempt"
    /\ UNCHANGED <<p_max_retries, p_retry_delay, p_content, p_browsers, p_contexts,
                   p_browser, p_context, p_hist, p_out>>

NextPw ==
    \/ PwLaunch
    \/ PwNewContext
    \/ PwPage
    \/ PwCloseContext
    \/ PwCloseBrowser
    \/ PwHandle
    \/ PwSleep

SpecPw == InitPw /\ [][NextPw]_vars

\* The attempt in progress is over: its finally clause has been left.
AttemptOver == p_pc \in {"handler", "sleep", "returned", "raised"}

\* The number of attempts started so far.
Attempts == IF p_pc = "idle" THEN 0 ELSE p_attempt + 1

\* C4: every attempt that launched a browser has closed it, and its context
\* if one was created, by the time the attempt ends, on every exit path; no
\* browser is left without a close() when the call returns or raises.
C4_BrowserClosedOnEveryExit ==
    AttemptOver =>
        /\ \A b \in 1..Len(p_browsers) : p_browsers[b].close_calls >= 1
        /\ \A c \in 1..Len(p_contexts) : p_contexts[c].close_calls >= 1

\* C5: whatever the kind of failure, a call whose attempts all fail makes
\* max_retries + 1 attempts before it raises.
C5_RetriesOnAnyFailure ==
    p_pc = "raised" => Attempts = p_max_retries + 1

\* C6: every failure of the call reaches the caller as a FetchError.
C6_AlwaysFetchError ==
    p_pc = "raised" => p_out.kind = "FetchError"

\* What happened to the attempt made last.
LastOutcome == p_hist[Len(p_hist)]

\* C15: when a blocked selector is present or an error text is found, the
\* call raises a FetchError that names the blocked access, and makes no
\* further attempt.
C15_BlockedIsFetchError ==
    (p_pc = "raised" /\ LastOutcome \in {"blocked_selector", "error_text"}) =>
        /\ p_out.kind = "FetchError"
        /\ p_out.message \in {"Content access blocked", "Access error"}
        /\ \A n \in 1..(Len(p_hist) - 1) :
              p_hist[n] \notin {"blocked_selector", "error_text"}

RetriedFailures ==
    {"no_response", "http_404", "http_500", "expected_missing", "content_short"}

\* C19: when the last attempt fails with a retried kind of failure, the
\* FetchError raised carries the message of that failure and the number of
\* the attempt on which it occurred.
C19_LastFailureAndAttempt ==
    (p_pc = "raised" /\ p_out.kind = "FetchError" /\ LastOutcome \in RetriedFailures) =>
        /\ p_out.message = BodyResult(LastOutcome, p_attempt + 1).message
        /\ p_out.current_attempt = p_attempt + 1

\* The browsers of the call that are open: launched, and no close() on them
\* has succeeded.
OpenBrowsers == {b \in 1..Len(p_browsers) : ~p_browsers[b].closed}

\* The attempt in progress is past its launch and inside the inner try
\* statement or its finally clause.
InSession == p_pc \in {"context", "page", "finally", "finally_browser"}

C34_ClosedExactlyOnce ==
    p_pc \in {"returned", "raised"} =>
        /\ \A b \in 1..Len(p_browsers) :
              p_browsers[b].closed /\ p_browsers[b].close_calls = 1
        /\ \A c \in 1..Len(p_contexts) :
              p_contexts[c].closed /\ p_contexts[c].close_calls = 1

C35_RenderedRetriesClientErrors ==
    /\ (/\ p_pc \in {"sleep", "raised"}
        /\ LastOutcome \in {"http_404", "http_500"}
        /\ p_pending.kind = "FetchError") =>
          /\ p_pending.status_code >= 400
          /\ p_pc = "sleep" <=> p_attempt < p_max_retries
          /\ p_pc = "raised" => p_out = p_pending
    /\ Len(p_hist) <= p_max_retries + 1
    /\ \A k \in 1..Len(h_hist) : IsClientError(h_hist[k]) =>
          /\ k = Len(h_hist)
          /\ h_pc \in {"got", "raised"}
          /\ h_pc = "raised" =>
                h_out.kind = "FetchError" /\ h_out.status_code = h_hist[k].status

\* Three attempts in rendered mode, each answered 404: the third one raises
\* the FetchError with the status.
C35_Witness ==
    /\ p_pc = "raised"
    /\ p_max_retries = 2
    /\ p_hist = <<"http_404", "http_404", "http_404">>
    /\ p_out.kind = "FetchError"
    /\ p_out.status_code = 404
    /\ Len(p_browsers) = 3

-----------------------------------------------------------------------------
(* extract_event_info and its retry wrapper (llm.py lines 156-391).        *)

\* Line 158: stop_after_attempt(3).
StopAfterAttempt == 3

\* The values the model writes into a field of a well-formed answer.
CleanValues ==
    {"Tech Conference 2023", "2023-07-15T10:00:00Z", "123 Main St", "a}b",
     "x, ]y", "say \"hi\"", "line\nbreak", "c:\\d", "{curly", "nullify", "a, b"}

NoValueStrings ==
    {"", "null", "NULL", " Null ", "none", "None", "NONE\n", "not found",
     "Not Found", "  ", "\tNOT FOUND "}

OtherStrings == {" padded ", "not found yet", "N/A", "x\n"}

FieldValues ==
    {JStr(str) : str \in NoValueStrings \cup OtherStrings}
    \cup {JNull, JNum("5"), JBool("false"), JList(<<JStr("a")>>),
          JObj(<<Pair("k", JStr("v"))>>)}

\* Well-formed answers whose five fields hold non-empty, trimmed strings.
RoundTripObjects ==
    {EventObject(JStr(title), JStr(description), JStr("2023-07-15T10:00:00Z"),
                 JStr("2023-07-15T18:00:00Z"), JStr("123 Main St")) :
        title \in CleanValues, description \in {"Tech Conference 2023", "a}b", "x, ]y"}}

\* Well-formed answers with no-value tokens, padded strings, values that are
\* not strings, missing keys and extra keys.
OtherObjects ==
    {EventObject(JStr("T"), value, JNull, JStr(" 2023-07-15T18:00:00Z"), JStr("None")) :
        value \in FieldValues}
    \cup {JObj(<<Pair("title", value), Pair("location", JStr("L"))>>) : value \in FieldValues}
    \cup {EventObject(JStr("T"), JStr("d"), JStr(start), JNull, JStr("L")) :
             start \in {"next Friday", "2023-07-15 10:00:00", "2023-13-45T10:00:00"}}
    \cup {JObj(<<Pair("title", JStr("T")), Pair("url", JStr("u")), Pair("price", JNum("5"))>>),
          JObj(<<Pair("description", JStr("no title key")), Pair("location", JStr("b c"))>>),
          JObj(<<Pair("description", JStr("a, b")), Pair("location", JStr("L"))>>),
          JObj(<<>>),
          JList(<<JObj(<<Pair("title", JStr("x"))>>)>>),
          JList(<<JObj(<<Pair("title", JStr("x"))>>), JObj(<<Pair("title", JStr("y"))>>)>>),
          JNum("5"), JStr("just a string")}

\* Answers that are not plain JSON: empty, prose, fenced, wrapped in prose,
\* with trailing commas, with loose key/value lines.
RawTexts ==
    {"", "  \n", "Invalid JSON",
     "~~~json\n{\"title\": \"a\", \"description\": null}\n~~~",
     "~~~ {\"title\": \"a\"} ~~~", "~~~\n~~~",
     "Here you go: {\"title\": \"a\", \"location\": \" Not Found \"} thanks",
     "{\"title\": \"a\",\n \"description\": \"b\",\n}",
     "{\"title\": \"x\", \"title\": \"y\"}",
     "\"title\": Some Event\n\"description\": stuff, more",
     "{\"x\": 1} {\"title\": 2}",
     "\"title\": c:\\d", "\"location\": Room 5 \n\"title\": none",
     "{\"title\": \"a\", \"tags\": [\"b\", ], \"location\": \"c\"}"}

\* The objects the model writes as JSON text.
WrittenObjects == RoundTripObjects \cup OtherObjects

\* What an attempt can meet besides a response text: genai.configure raises,
\* the model call raises with or without "blocked" in its message, reading
\* response.text raises. LibraryError(at, message) is the exception, at is
\* the call that raised it.
LibraryError(at, message) == [kind |-> "Exception", at |-> at, message |-> message]

\* str(e) of the exceptions genai.configure raises.
ConfigureMessages == {"No API_KEY or ADC found"}

\* str(e) of the exceptions model.generate_content_async raises.
InvokeMessages ==
    {"Content blocked by safety settings", "BLOCKED", "Prompt was Blocked.",
     "503 Service Unavailable", "block list unavailable"}

\* str(e) of the exceptions the response.text accessor raises.
TextMessages == {"response.text requires a valid Part, the candidate was blocked"}

InitLlm ==
    /\ IdleHttp
    /\ IdlePw
    /\ IdleRest
    /\ l_pc = "configure"
    /\ l_attempt = 1
    /\ l_calls = 0
    /\ l_text = ""
    /\ l_object = <<>>
    /\ l_result = <<>>
    /\ l_outcome = None
    /\ l_hist = <<>>
    /\ l_waits = 0
    /\ l_error = None
    /\ l_out = None

\* str(e) of the exceptions genai.GenerativeModel(...) raises.
ModelMessages == {"module 'google.generativeai' has no attribute 'GenerativeModel'"}

MutUnexpectedEscapes(attempt) == Exc("Exception", "Error during event extraction", attempt)

\* Lines 376-391: any exception that is not an LLMError becomes an LLMError.
UnexpectedError(attempt) == Exc("LLMError", "Error during event extraction", attempt)

\* Lines 110-124 and 190-205: init_gemini(api_key), the model object and the
\* prompt; a failure of genai.configure is raised as APIKeyError.
LlmConfigure ==
    /\ UNCHANGED notLlmVars
    /\ l_pc = "configure"
    /\ \/ /\ l_pc' = "invoke"
          /\ UNCHANGED <<l_outcome, l_error>>
       \/ \E message \in ConfigureMessages :
            /\ l_error' = LibraryError("configure", message)
            /\ l_outcome' = Exc("APIKeyError", "Failed to initialize Gemini API", l_attempt)
            /\ l_pc' = "outcome"
       \/ \E message \in ModelMessages :
            /\ l_error' = LibraryError("model", message)
            /\ l_outcome' = UnexpectedError(l_attempt)
            /\ l_pc' = "outcome"
    /\ UNCHANGED <<l_attempt, l_calls, l_text, l_object, l_result, l_hist, l_waits, l_out>>

MutBlockedCaseSensitive(message) == Find(message, "blocked", 1) > 0

\* Line 219: "blocked" in str(e).lower().
SaysBlocked(message) == Find(Lower(message), "blocked", 1) > 0

\* Lines 212-229: the error raised for an exception of the model call.
InvokeError(message, attempt) ==
    IF SaysBlocked(message)
      THEN Exc("ContentFilterError", "Content filtered by Gemini API", attempt)
      ELSE Exc("LLMError", "Error during API call", attempt)

\* Lines 208-232: await model.generate_content_async(prompt) and the first
\* read of response.text.
LlmInvoke ==
    /\ UNCHANGED notLlmVars
    /\ l_pc = "invoke"
    /\ l_calls' = l_calls + 1
    /\ \/ \E object \in WrittenObjects :
            /\ l_text' = Dumps(object)
            /\ l_object' = <<object>>
            /\ l_pc' = "parse"
            /\ UNCHANGED <<l_outcome, l_error>>
       \/ \E text \in RawTexts :
            /\ l_text' = text
            /\ l_object' = <<>>
            /\ l_pc' = "parse"
            /\ UNCHANGED <<l_outcome, l_error>>
       \/ \E message \in InvokeMessages :
            /\ l_error' = LibraryError("invoke", message)
            /\ l_outcome' = InvokeError(message, l_attempt)
            /\ l_pc' = "outcome"
            /\ UNCHANGED <<l_text, l_object>>
       \/ \E message \in TextMessages :
            /\ l_error' = LibraryError("text", message)
            /\ l_outcome' = UnexpectedError(l_attempt)
            /\ l_pc' = "outcome"
            /\ UNCHANGED <<l_text, l_object>>
    /\ UNCHANGED <<l_attempt, l_result, l_hist, l_waits, l_out>>

\* Lines 234-354: the repair pipeline, json.loads and the normalization.
LlmParse ==
    /\ UNCHANGED notLlmVars
    /\ l_pc = "parse"
    /\ \E parsed \in {ParsedResult(l_text)} :
          /\ l_result' = parsed.result
          /\ l_outcome' = AttemptOutcome(parsed, l_attempt)
    /\ l_pc' = "outcome"
    /\ UNCHANGED <<l_attempt, l_calls, l_text, l_object, l_hist, l_waits, l_error, l_out>>

MutRetryOnlyPlainLLMError(kind) == kind = "LLMError"

\* Line 157: retry_if_exception_type(LLMError), subclasses included.
ShouldRetry(kind) == kind \in LLMErrorKinds

\* Line 158: stop_after_attempt(3).
ShouldStop(attempt) == attempt >= StopAfterAttempt

\* Lines 156-161: the retry wrapper looks at the attempt's outcome: a result
\* is returned; an LLMError is retried after a wait, or, on the last attempt,
\* handed to retry_error_callback, whose outcome.result() raises it again.
LlmRetry ==
    /\ UNCHANGED notLlmVars
    /\ l_pc = "outcome"
    /\ l_hist' = Append(l_hist, l_outcome.kind)
    /\ IF l_outcome.kind = "return"
         THEN /\ l_out' = l_outcome
              /\ l_pc' = "returned"
         ELSE IF ShouldRetry(l_outcome.kind) /\ ~ShouldStop(l_attempt)
                THEN /\ l_pc' = "wait"
                     /\ l_out' = l_out
                ELSE /\ l_out' = l_outcome
                     /\ l_pc' = "raised"
    /\ UNCHANGED <<l_attempt, l_calls, l_text, l_object, l_result, l_outcome, l_waits,
                   l_error>>

\* Line 159: wait_exponential(...), then the next attempt.
LlmWait ==
    /\ UNCHANGED notLlmVars
    /\ l_pc = "wait"
    /\ l_waits' = l_waits + 1
    /\ l_attempt' = l_attempt + 1
    /\ l_text' = ""
    /\ l_object' = <<>>
    /\ l_result' = <<>>
    /\ l_outcome' = None
    /\ l_error' = None
    /\ l_pc' = "configure"
    /\ UNCHANGED <<l_calls, l_hist, l_out>>

NextLlm ==
    \/ LlmConfigure
    \/ LlmInvoke
    \/ LlmParse
    \/ LlmRetry
    \/ LlmWait

SpecLlm == InitLlm /\ [][NextLlm]_vars

LlmDone == l_pc \in {"returned", "raised"}

\* The attempts that ended before the last one of l_hist.
EarlierAttempts == 1..(Len(l_hist) - 1)

\* C7: the extraction runs at most 3 times per call and the model is invoked
\* at most once per run; every attempt before the last one ended in an
\* LLMError of some kind; a call that returns hands over the result of its
\* last, and only successful, attempt; a call that raises has made 3
\* attempts that all ended in an LLMError, and raises the error of the third
\* attempt itself, with that error's own kind.
C7_FinalAttemptOutcome ==
    /\ l_attempt <= StopAfterAttempt
    /\ l_calls <= l_attempt
    /\ Len(l_hist) <= StopAfterAttempt
    /\ \A n \in EarlierAttempts : l_hist[n] \in LLMErrorKinds
    /\ ~LlmDone => l_out = None
    /\ l_pc = "returned" =>
          /\ l_out = l_outcome
          /\ l_out.kind = "return"
          /\ Len(l_hist) = l_attempt
    /\ l_pc = "raised" =>
          /\ Len(l_hist) = StopAfterAttempt
          /\ l_out = l_outcome
          /\ l_out.kind = l_hist[StopAfterAttempt]
          /\ l_out.kind \in LLMErrorKinds
          /\ l_out.attempt = StopAfterAttempt

\* Fail, fail, succeed: the third result is returned after 3 invocations.
C7_Witness ==
    /\ l_pc = "returned"
    /\ l_hist = <<"LLMError", "LLMError", "return">>
    /\ l_calls = 3
    /\ l_out = l_outcome

\* The key set of a record.
FieldSet == {RequiredFields[n] : n \in 1..Len(RequiredFields)}

\* C8: a returned record has the five keys, each once, and no other key; a
\* key the parsed object lacks has the value null.
C8_ExactKeySet ==
    l_pc = "returned" =>
        /\ Keys(l_out.value) = FieldSet
        /\ Len(l_out.value) = Len(RequiredFields)
        /\ \A field \in FieldSet \ Keys(l_result) :
              Get(l_out.value, field, Len(l_out.value)) = JNull

\* A record is returned for an object that lacks some of the five keys and
\* has a key beyond them.
C8_Witness ==
    /\ l_pc = "returned"
    /\ "url" \in Keys(l_result)
    /\ "description" \notin Keys(l_result)

\* a and b are the same string up to the case of their letters.
SameIgnoringCase(a, b) ==
    /\ Len(a) = Len(b)
    /\ \A i \in 1..Len(a) :
          \/ Ch(a, i) = Ch(b, i)
          \/ \E k \in 1..Len(UpperCase) :
                {Ch(a, i), Ch(b, i)} = {Ch(UpperCase, k), Ch(LowerCase, k)}

\* t is s without its leading and trailing whitespace.
IsTrimOf(t, s) ==
    /\ t = "" \/ (Ch(t, 1) \notin Whitespace /\ Ch(t, Len(t)) \notin Whitespace)
    /\ \E lead \in 0..(Len(s) - Len(t)) :
          /\ SubSeq(s, lead + 1, lead + Len(t)) = t
          /\ \A i \in (1..lead) \cup ((lead + Len(t) + 1)..Len(s)) : Ch(s, i) \in Whitespace

\* The string value stands for no value once trimmed.
IsNoValue(str) ==
    \E t \in {"", "null", "none", "not found"} :
        \E lead \in 0..(Len(str) - Len(t)) :
            /\ SameIgnoringCase(SubSeq(str, lead + 1, lead + Len(t)), t)
            /\ IsTrimOf(SubSeq(str, lead + 1, lead + Len(t)), str)

\* C9: in a returned record each of the five fields is null when the parsed
\* value is absent, null or a string that, trimmed, is "", "null", "none" or
\* "not found" in any letter case; any other string is returned trimmed and
\* otherwise unchanged.
C9_FieldNormalization ==
    l_pc = "returned" =>
        \A field \in FieldSet :
            \E value \in {Get(l_result, field, Len(l_result))} :
            \E cleaned \in {Get(l_out.value, field, Len(l_out.value))} :
                /\ value = JNull => cleaned = JNull
                /\ value.t = "str" /\ IsNoValue(value.s) => cleaned = JNull
                /\ value.t = "str" /\ ~IsNoValue(value.s) =>
                      /\ cleaned.t = "str"
                      /\ IsTrimOf(cleaned.s, value.s)

\* A record is returned for an object with a no-value token in capitals
\* around whitespace, a padded string and an absent key.
C9_Witness ==
    /\ l_pc = "returned"
    /\ Get(l_result, "description", Len(l_result)) = JStr("\tNOT FOUND ")
    /\ Get(l_out.value, "description", Len(l_out.value)) = JNull
    /\ Get(l_result, "end_datetime", Len(l_result)) = JStr(" 2023-07-15T18:00:00Z")
    /\ Get(l_out.value, "end_datetime", Len(l_out.value)) = JStr("2023-07-15T18:00:00Z")

\* The text has no character that is not whitespace.
WhitespaceOnly(text) == \A i \in 1..Len(text) : Ch(text, i) \in Whitespace

\* C20: an attempt whose response text is empty or whitespace alone raises
\* ResponseParsingError for an empty response; nothing is parsed or salvaged
\* from the text and no record is returned for it.
C20_EmptyResponseRejected ==
    [][(l_pc = "parse" /\ WhitespaceOnly(l_text)) =>
          /\ l_outcome' = Exc("ResponseParsingError", "Empty response from Gemini API",
                               l_attempt)
          /\ l_result' = <<>>
          /\ l_pc' = "outcome"]_vars

\* The attempt on a response of blanks and a newline has raised.
C20_Witness ==
    /\ l_pc = "outcome"
    /\ l_text = "  \n"
    /\ l_outcome = Exc("ResponseParsingError", "Empty response from Gemini API", l_attempt)

\* C10: when the model writes a well-formed object whose five fields hold
\* non-empty, trimmed strings that are no no-value tokens, the attempt
\* returns a record identical to that object.
C10_RoundTrip ==
    \A object \in RoundTripObjects :
        l_pc = "outcome" /\ l_object = <<object>> =>
            l_outcome = Returned(object.items)

\* C21: an attempt whose response is text with no brace in it that is not
\* JSON (prose) raises ResponseParsingError for a failed JSON parse and
\* returns no record.
C21_ProseRejected ==
    (/\ l_pc = "outcome"
     /\ l_object = <<>>
     /\ ~WhitespaceOnly(l_text)
     /\ Find(l_text, "{", 1) = 0
     /\ ~Loads(CleanResponse(l_text)).ok)
        => l_outcome = Exc("ResponseParsingError", "Failed to parse response as JSON",
                           l_attempt)

\* word occurs in message, whatever the case of the letters of either.
Mentions(message, word) ==
    \E i \in 1..(Len(message) - Len(word) + 1) :
        SameIgnoringCase(SubSeq(message, i, i + Len(word) - 1), word)

\* C22: an exception of the model call is raised as ContentFilterError when
\* its message has "blocked" in it, in any case, and as plain LLMError when
\* it has not; no other failure is raised as ContentFilterError; an
\* exception of genai.configure is raised as APIKeyError, by an attempt that
\* has not called the model, and nothing else is raised as APIKeyError.
C22_InvocationErrors ==
    /\ (l_pc = "outcome" /\ l_error # None /\ l_error.at = "invoke") =>
          l_outcome = IF Mentions(l_error.message, "blocked")
                        THEN Exc("ContentFilterError", "Content filtered by Gemini API",
                                 l_attempt)
                        ELSE Exc("LLMError", "Error during API call", l_attempt)
    /\ (l_pc = "outcome" /\ l_outcome.kind = "ContentFilterError") =>
          (l_error # None /\ l_error.at = "invoke" /\ Mentions(l_error.message, "blocked"))
    /\ (l_pc = "outcome" /\ l_error # None /\ l_error.at = "configure") =>
          /\ l_outcome = Exc("APIKeyError", "Failed to initialize Gemini API", l_attempt)
          /\ l_calls < l_attempt
    /\ (l_pc = "outcome" /\ l_outcome.kind = "APIKeyError") =>
          (l_error # None /\ l_error.at = "configure")

\* The second attempt's model call raised with BLOCKED in capitals and the
\* attempt raised ContentFilterError.
C22_Witness ==
    /\ l_pc = "outcome"
    /\ l_attempt = 2
    /\ l_error = LibraryError("invoke", "BLOCKED")
    /\ l_outcome.kind = "ContentFilterError"

\* C23: every field of a returned record is null or a string.
C23_FieldsAreStrings ==
    l_pc = "returned" =>
        \A n \in 1..Len(l_out.value) : l_out.value[n].v.t \in {"null", "str"}

\* C29: when the fence-stripped response is itself a JSON object, the
\* attempt returns the record that normalization makes of the object
\* json.loads gives for that text, with or without a title key.
C29_DirectParseFirst ==
    LET Whole(direct) ==
            (direct.ok /\ direct.v.t = "obj") =>
                l_outcome = Returned(CleanedResult(direct.v.items))
    IN  (l_pc = "outcome" /\ l_error = None /\ ~WhitespaceOnly(l_text))
            => Whole(Loads(CleanResponse(l_text)))

\* What the salvage of lines 267-279 finds for a field: the matched text,
\* normalized as every field is, or null.
SalvagedValue(match) ==
    IF match.found THEN NormalizeValue(JStr(match.text)) ELSE JNull

\* C30: when the pattern of line 257 matches nowhere in the fence-stripped
\* response, the attempt returns a record, in which every field holds what
\* the field's pattern matched, and null when it matched nothing.
C30_SalvagedRecord ==
    (/\ l_pc = "outcome"
     /\ l_error = None
     /\ ~WhitespaceOnly(l_text)
     /\ ~JsonMatch(CleanResponse(l_text)).found)
        => /\ l_outcome.kind = "return"
           /\ \A n \in 1..Len(RequiredFields) :
                 Get(l_outcome.value, RequiredFields[n], Len(l_outcome.value))
                    = SalvagedValue(SalvageField(CleanResponse(l_text), RequiredFields[n]))

\* C31: when the fence-stripped response parses to a list that holds exactly
\* one object, the attempt returns the record of that object; when it parses
\* to any other value that is no object (another list, a number, a string, a
\* boolean, null), the attempt raises ResponseParsingError and returns no
\* record.
C31_NonObjectRejected ==
    LET OneObject(v) == v.t = "list" /\ Len(v.items) = 1 /\ v.items[1].t = "obj"
        Whole(direct) ==
            /\ (direct.ok /\ OneObject(direct.v)) =>
                  l_outcome = Returned(CleanedResult(direct.v.items[1].items))
            /\ (direct.ok /\ direct.v.t # "obj" /\ ~OneObject(direct.v)) =>
                  l_outcome.kind = "ResponseParsingError"
    IN  (l_pc = "outcome" /\ l_error = None /\ ~WhitespaceOnly(l_text))
            => Whole(Loads(CleanResponse(l_text)))

\* C38: every exception that leaves an attempt of extract_event_info is an
\* LLMError or one of its subclasses; an exception of any other type raised
\* inside it (while the model object is built, while response.text is read)
\* leaves as a plain LLMError; so every failure is retried, and a call raises
\* only once 3 attempts have failed.
C38_OnlyLLMErrorsEscape ==
    /\ (l_pc = "outcome" /\ l_outcome.kind # "return") =>
          l_outcome.kind \in LLMErrorKinds
    /\ (l_pc = "outcome" /\ l_error # None /\ l_error.at \in {"model", "text"}) =>
          /\ l_outcome.kind = "LLMError"
          /\ l_outcome.message = "Error during event extraction"
    /\ \A n \in 1..Len(l_hist) : l_hist[n] \in LLMErrorKinds \cup {"return"}
    /\ l_pc = "raised" =>
          /\ l_out.kind \in LLMErrorKinds
          /\ Len(l_hist) = StopAfterAttempt

\* The model object cannot be built on the first attempt and response.text
\* cannot be read on the next two: the third plain LLMError is raised.
C38_Witness ==
    /\ l_pc = "raised"
    /\ l_hist = <<"LLMError", "LLMError", "LLMError">>
    /\ l_error = LibraryError("text", "response.text requires a valid Part, the candidate was blocked")
    /\ l_out = Exc("LLMError", "Error during event extraction", StopAfterAttempt)
    /\ l_calls = 2

-----------------------------------------------------------------------------
(* scrape_website (routes.py 55-162): the handler of POST /scrape. It      *)
(* awaits one of the fetchers, calls preprocess_html and awaits            *)
(* extract_event_info; the callee's frame is gone once its outcome is in   *)
(* the handler's hands.                                                    *)

\* fetchers.py line 77: max_retries of fetch_http_content, which the handler
\* leaves at its default.
HttpDefaultMaxRetries == 3

\* fetchers.py lines 209-210: max_retries and retry_delay of
\* fetch_playwright_content, left at their defaults.
PwDefaultMaxRetries == 2
PwDefaultRetryDelay == 1

\* The urls of the model: one of the excluded platform, one of any other site.
RouteUrls == {"https://example.com/events", "https://www.facebook.com/events/1"}

\* JSONResponse(status_code=..., content={"error": ...}).
JSONResponse(status_code, error) ==
    [kind |-> "JSONResponse", status_code |-> status_code, error |-> error]

\* Line 122: return response, a ScrapeResponse, served with status 200.
ScrapeResponse == [kind |-> "ScrapeResponse", status_code |-> 200, error |-> ""]

\* An except clause: the class it names and the response its body returns.
Clause(cls, status_code, error) ==
    [cls |-> cls, response |-> JSONResponse(status_code, error)]

\* isinstance(e, cls) for the exceptions that reach the handler: the
\* LLMError family of llm.py 16-67; pydantic's ValidationError is a
\* ValueError; every exception is an Exception.
IsInstance(kind, cls) ==
    \/ cls = "Exception"
    \/ kind = cls
    \/ cls = "LLMError" /\ kind \in LLMErrorKinds
    \/ cls = "ValueError" /\ kind = "ValidationError"

\* Lines 89-94.
FetchClauses == <<Clause("FetchError", 400, "Failed to fetch content")>>

\* Lines 102-107.
PreprocessClauses == <<Clause("Exception", 500, "Failed to process content")>>

MutLLMErrorFirst ==
    <<Clause("LLMError", 503, "LLM service error"),
      Clause("APIKeyError", 401, "Invalid API key"),
      Clause("ContentFilterError", 422, "Content filtered"),
      Clause("ResponseParsingError", 422, "Failed to parse response")>>

\* Lines 124-147, in the order of the source.
ExtractClauses ==
    <<Clause("APIKeyError", 401, "Invalid API key"),
      Clause("ContentFilterError", 422, "Content filtered"),
      Clause("ResponseParsingError", 422, "Failed to parse response"),
      Clause("LLMError", 503, "LLM service error")>>

\* Lines 149-162: the clauses of the outer try.
OuterClauses ==
    <<Clause("ValueError", 422, "Validation error"),
      Clause("Exception", 500, "Internal server error")>>

RECURSIVE FirstMatch(_, _, _)
\* Python runs the first except clause, from clause n on, whose class the
\* exception is an instance of.
FirstMatch(kind, clauses, n) ==
    IF IsInstance(kind, clauses[n].cls)
      THEN clauses[n].response
      ELSE FirstMatch(kind, clauses, n + 1)

\* An exception raised in the body of an inner try meets that try's clauses
\* and then those of the outer try (whose last clause takes every exception).
Handle(kind, inner_clauses) == FirstMatch(kind, inner_clauses \o OuterClauses, 1)

\* Line 71: "facebook.com" in request.url.
IsFacebook(url) == Find(url, "facebook.com", 1) > 0

\* value has the shape: as long, a digit where the shape has "d", the
\* shape's own character elsewhere.
HasShape(value, shape) ==
    /\ Len(value) = Len(shape)
    /\ \A i \in 1..Len(shape) :
          IF Ch(shape, i) = "d" THEN Ch(value, i) \in Digits
                                ELSE Ch(value, i) = Ch(shape, i)

\* (?:Z|[+-]\d{2}:\d{2})? up to the end of the string.
IsoZone(rest) ==
    rest \in {"", "Z"} \/ HasShape(rest, "+dd:dd") \/ HasShape(rest, "-dd:dd")

\* models.py line 54: re.match(iso_pattern, value). The fraction takes every
\* digit after the point (what follows it starts with no digit).
MatchesIsoPattern(value) ==
    /\ Len(value) >= 19
    /\ HasShape(SubSeq(value, 1, 19), "dddd-dd-ddTdd:dd:dd")
    /\ IF StartsAt(value, ".", 20) /\ RunLength(value, 21, Digits) >= 1
         THEN IsoZone(From(value, 21 + RunLength(value, 21, Digits)))
         ELSE IsoZone(From(value, 20))

\* Two digits that read as a number of lo..hi.
InRange(two, lo, hi) ==
    \E n \in lo..hi : two = Ch("0123456789", (n \div 10) + 1) \o Ch("0123456789", (n % 10) + 1)

\* models.py lines 59-66: datetime.fromisoformat(value), then strptime with
\* %Y-%m-%d %H:%M:%S, %Y/%m/%d %H:%M and %d-%m-%Y %H:%M. The model knows the
\* full-width forms without fraction or offset; a day is of 01..31 whatever
\* the month.
ParsesAsDatetime(value) ==
    LET Date(y, m, d) == InRange(SubSeq(value, m, m + 1), 1, 12)
                         /\ InRange(SubSeq(value, d, d + 1), 1, 31)
                         /\ SubSeq(value, y, y + 3) # "0000"
        Time(h) == InRange(SubSeq(value, h, h + 1), 0, 23)
                   /\ InRange(SubSeq(value, h + 3, h + 4), 0, 59)
        Seconds(s) == InRange(SubSeq(value, s, s + 1), 0, 59)
    IN  \/ HasShape(value, "dddd-dd-dd") /\ Date(1, 6, 9)
        \/ \E sep \in {" ", "T"} :
              \/ HasShape(value, "dddd-dd-dd" \o sep \o "dd:dd")
                    /\ Date(1, 6, 9) /\ Time(12)
              \/ HasShape(value, "dddd-dd-dd" \o sep \o "dd:dd:dd")
                    /\ Date(1, 6, 9) /\ Time(12) /\ Seconds(18)
        \/ HasShape(value, "dddd/dd/dd dd:dd") /\ Date(1, 6, 9) /\ Time(12)
        \/ HasShape(value, "dd-dd-dddd dd:dd") /\ Date(7, 4, 1) /\ Time(12)

\* bool(value) of a parsed JSON value.
Truthy(value) ==
    CASE value.t = "null" -> FALSE
      [] value.t = "str" -> value.s # ""
      [] value.t = "num" -> value.s \notin {"0", "0.0", "-0"}
      [] value.t = "bool" -> value.s = "true"
      [] OTHER -> value.items # <<>>

\* models.py lines 48-71: validate_datetime, run before the field's own
\* validation. re.match on a value that is not a string raises TypeError,
\* which pydantic 1 reports as a validation error and pydantic 2 lets through.
ValidateDatetime(value, pydantic_1) ==
    IF ~Truthy(value) THEN "ok"
    ELSE IF value.t # "str" THEN (IF pydantic_1 THEN "ValidationError" ELSE "TypeError")
    ELSE IF MatchesIsoPattern(value.s) \/ ParsesAsDatetime(value.s) THEN "ok"
    ELSE "ValidationError"

\* models.py lines 42-46: an Optional[str] field takes None and a string;
\* pydantic 1 turns a number into a string, pydantic 2 rejects it; neither
\* takes a list or an object.
ValidateStr(value, pydantic_1) ==
    IF value.t \in {"null", "str"} THEN "ok"
    ELSE IF value.t \in {"num", "bool"} /\ pydantic_1 THEN "ok"
    ELSE "ValidationError"

\* Line 119: ScrapeResponse(**event_info): "ok", or the kind of the exception
\* the constructor raises. A TypeError in a validator ends the validation.
ValidateResponse(event_info, pydantic_1) ==
    LET Field(key) == Get(event_info, key, Len(event_info))
        dates == {ValidateDatetime(Field("start_datetime"), pydantic_1),
                  ValidateDatetime(Field("end_datetime"), pydantic_1)}
        strings == {ValidateStr(Field(key), pydantic_1) :
                       key \in {"title", "description", "location"}}
    IN  IF "TypeError" \in dates THEN "TypeError"
        ELSE IF "ValidationError" \in dates \cup strings THEN "ValidationError"
        ELSE "ok"

\* The frame of a fetch_http_content(url) call as it starts: request.url is
\* an HttpUrl, so it has a scheme and a host.
CallHttp(max_retries) ==
    /\ h_pc' = "validate"
    /\ h_url_ok' = TRUE
    /\ h_max_retries' = max_retries
    /\ UNCHANGED <<h_retries, h_last_error, h_response, h_requests, h_sleeps,
                   h_hist, h_out>>

\* The frame of a fetch_playwright_content(url) call as it starts.
CallPw(max_retries, retry_delay) ==
    /\ p_pc' = "attempt"
    /\ p_max_retries' = max_retries
    /\ p_retry_delay' = retry_delay
    /\ UNCHANGED <<p_attempt, p_browsers, p_contexts, p_browser, p_context,
                   p_pending, p_hist, p_sleeps, p_content, p_out>>

\* The frame of an extract_event_info call as it starts.
CallLlm ==
    /\ l_pc' = "configure"
    /\ UNCHANGED <<l_attempt, l_calls, l_text, l_object, l_result, l_outcome,
                   l_hist, l_waits, l_error, l_out>>

\* The frames of the calls that are over are dropped.
DropHttp ==
    /\ h_pc' = "idle"
    /\ h_url_ok' = TRUE
    /\ h_max_retries' = 0
    /\ h_retries' = 0
    /\ h_last_error' = None
    /\ h_response' = None
    /\ h_requests' = 0
    /\ h_sleeps' = 0
    /\ h_hist' = <<>>
    /\ h_out' = None

DropPw ==
    /\ p_pc' = "idle"
    /\ p_max_retries' = 0
    /\ p_retry_delay' = 0
    /\ p_attempt' = 0
    /\ p_browsers' = <<>>
    /\ p_contexts' = <<>>
    /\ p_browser' = 0
    /\ p_context' = 0
    /\ p_pending' = None
    /\ p_hist' = <<>>
    /\ p_sleeps' = <<>>
    /\ p_content' = 0
    /\ p_out' = None

DropLlm ==
    /\ l_pc' = "idle"
    /\ l_attempt' = 1
    /\ l_calls' = 0
    /\ l_text' = ""
    /\ l_object' = <<>>
    /\ l_result' = <<>>
    /\ l_outcome' = None
    /\ l_hist' = <<>>
    /\ l_waits' = 0
    /\ l_error' = None
    /\ l_out' = None

\* models.py line 15: a key shorter than this is refused.
MinKeyLength == 10

\* models.py line 26: instructions longer than this are refused.
MaxInstructionsLength == 1000

\* main.py lines 37-44: FastAPI(...) is built without debug, and nothing sets it.
AppDebug == FALSE

\* main.py line 79: the details the application-wide handler gives when
\* app.debug is off.
GenericDetails == "An unexpected error occurred"

\* models.py line 7: url: HttpUrl, a scheme of http or https and a host.
IsHttpUrl(url) ==
    \E scheme \in {"http://", "https://"} :
        StartsAt(url, scheme, 1) /\ Len(url) > Len(scheme)

\* models.py lines 6-28: ScrapeRequest takes the body: the url is an HttpUrl,
\* validate_api_key refuses an empty key and one of fewer than 10 characters,
\* validate_instructions refuses more than 1000 characters (None passes).
ValidRequest(url, key_length, instructions_length) ==
    /\ IsHttpUrl(url)
    /\ key_length >= MinKeyLength
    /\ instructions_length <= MaxInstructionsLength

\* The requests of the model: the accepted ones carry a key and instructions
\* of the last length the validators take; each refused one has one field wrong.
RouteRequests ==
    LET Request(url, use_playwright, key_length, instructions_length) ==
            [url |-> url, use_playwright |-> use_playwright,
             key_length |-> key_length,
             instructions_length |-> instructions_length]
    IN  {Request(url, use_playwright, MinKeyLength, MaxInstructionsLength) :
            url \in RouteUrls, use_playwright \in BOOLEAN}
        \cup {Request("example.com/events", FALSE, MinKeyLength, 0),
              Request("https://example.com/events", FALSE, MinKeyLength - 1, 0),
              Request("https://example.com/events", FALSE, 0, 0),
              Request("https://example.com/events", TRUE, MinKeyLength,
                      MaxInstructionsLength + 1)}

\* routes.py line 55, Depends(check_rate_limit): the dependency returns,
\* raises the HTTPException of a client over its limit, or fails on
\* request.client.host when the server gives no client address.
DependencyOutcomes == {"return", "HTTPException", "AttributeError"}

\* str(e) of an exception raised by a stage, as the except clauses put it in
\* the body.
DetailsOf(outcome) == IF outcome.kind = "return" THEN "" ELSE outcome.message

\* str(e) of the exceptions the handler's own statements raise.
MessageOf(kind) ==
    CASE kind = "PreprocessingError" -> "Failed to preprocess HTML"
      [] kind = "ValidationError" -> "validation error for ScrapeResponse"
      [] kind = "TypeError" -> "expected string or bytes-like object"
      [] OTHER -> ""

InitRoute ==
    /\ IdleHttp
    /\ IdlePw
    /\ IdleLlm
    /\ IdleRate
    /\ IdleLoop
    /\ IdlePre
    /\ IdlePrompt
    /\ IdleGenai
    /\ r_pc = "request"
    /\ r_pydantic_1 \in BOOLEAN
    /\ \E request \in RouteRequests :
          /\ r_url = request.url
          /\ r_use_playwright = request.use_playwright
          /\ r_key_length = request.key_length
          /\ r_instructions_length = request.instructions_length
    /\ r_stages = <<>>
    /\ r_outcomes = <<>>
    /\ r_response = None
    /\ r_details = ""

\* What FastAPI does with a request before it calls scrape_website: it runs
\* the dependency, then validates the body. main.py lines 59-69 answer a
\* body that fails validation, lines 71-81 an exception nothing else handles;
\* an HTTPException is answered with its own status.
RouteValidate ==
    /\ r_pc = "request"
    /\ \E dependency \in DependencyOutcomes :
          CASE dependency = "HTTPException" ->
                 /\ r_response' = JSONResponse(429, "Too many requests")
                 /\ r_details' = "Rate limit exceeded"
                 /\ r_pc' = "done"
            [] dependency = "AttributeError" ->
                 /\ r_response' = JSONResponse(500, "Internal server error")
                 /\ r_details' = IF AppDebug
                                   THEN "'NoneType' object has no attribute 'host'"
                                   ELSE GenericDetails
                 /\ r_pc' = "done"
            [] OTHER ->
                 IF ValidRequest(r_url, r_key_length, r_instructions_length)
                   THEN /\ r_response' = r_response
                        /\ r_details' = r_details
                        /\ r_pc' = "start"
                   ELSE /\ r_response' = JSONResponse(422, "Validation error")
                        /\ r_details' = "validation error for ScrapeRequest"
                        /\ r_pc' = "done"
    /\ UNCHANGED <<requestVars, r_stages, r_outcomes, httpVars, pwVars, llmVars,
                   rateVars, loopVars, preVars, promptVars, genaiVars>>

\* Line 71: the operand on the right of "in". Under pydantic 1 an HttpUrl is
\* a str; under pydantic 2 it is a Url object, which is no container, and
\* the test raises TypeError.
ContainsFacebook(pydantic_1, url) ==
    IF pydantic_1 THEN (IF IsFacebook(url) THEN "yes" ELSE "no") ELSE "TypeError"

\* Lines 67-88: the platform check, then the call of the fetcher the request
\* selects, up to its await.
RouteStart ==
    /\ r_pc = "start"
    /\ CASE ContainsFacebook(r_pydantic_1, r_url) = "yes" ->
              /\ r_response' = JSONResponse(400, "Facebook URLs are not supported")
              /\ r_details' = r_details
              /\ r_pc' = "done"
              /\ UNCHANGED <<r_stages, httpVars, pwVars>>
         [] ContainsFacebook(r_pydantic_1, r_url) = "TypeError" ->
              /\ r_response' = Handle("TypeError", <<>>)
              /\ r_details' = "argument of type 'Url' is not iterable"
              /\ r_pc' = "done"
              /\ UNCHANGED <<r_stages, httpVars, pwVars>>
         [] OTHER ->
              /\ r_stages' = Append(r_stages, "fetch")
              /\ r_pc' = "fetch"
              /\ r_response' = r_response
              /\ r_details' = r_details
              /\ IF r_use_playwright
                   THEN CallPw(PwDefaultMaxRetries, PwDefaultRetryDelay)
                        /\ UNCHANGED httpVars
                   ELSE CallHttp(HttpDefaultMaxRetries) /\ UNCHANGED pwVars
    /\ UNCHANGED <<requestVars, r_outcomes, llmVars, rateVars, loopVars, preVars, promptVars, genaiVars>>

\* What the fetcher's call came to, once it is over.
FetchOutcome == IF r_use_playwright THEN p_out ELSE h_out

FetchOver == IF r_use_playwright THEN p_pc \in {"returned", "raised"} ELSE HttpDone

MutFetchAlwaysSucceeds(outcome) == TRUE

\* Lines 81-88: the statements after the await run when the fetcher returned.
FetchSucceeded(outcome) == outcome.kind = "return"

\* Lines 81-94 and 149-162: the fetcher returns content, or raises into the
\* except clauses.
RouteFetched ==
    /\ r_pc = "fetch"
    /\ FetchOver
    /\ r_outcomes' = Append(r_outcomes, FetchOutcome.kind)
    /\ IF FetchSucceeded(FetchOutcome)
         THEN /\ r_pc' = "preprocess"
              /\ r_response' = r_response
              /\ r_details' = r_details
         ELSE /\ r_pc' = "done"
              /\ r_response' = Handle(FetchOutcome.kind, FetchClauses)
              /\ r_details' = DetailsOf(FetchOutcome)
    /\ DropHttp
    /\ DropPw
    /\ UNCHANGED <<requestVars, r_stages, llmVars, rateVars, loopVars, preVars, promptVars, genaiVars>>

\* preprocessor.py 12-97: preprocess_html returns the cleaned text or raises
\* PreprocessingError, whatever went wrong inside it.
PreprocessOutcomes == {"return", "PreprocessingError"}

\* Lines 97-116: preprocess_html(content), then the call of
\* extract_event_info up to its await.
RoutePreprocess ==
    /\ r_pc = "preprocess"
    /\ \E outcome \in PreprocessOutcomes :
          /\ r_outcomes' = Append(r_outcomes, outcome)
          /\ IF outcome = "return"
            THEN /\ r_stages' = r_stages \o <<"preprocess", "extract">>
                 /\ r_pc' = "extract"
                 /\ r_response' = r_response
                 /\ r_details' = r_details
                 /\ CallLlm
            ELSE /\ r_stages' = Append(r_stages, "preprocess")
                 /\ r_pc' = "done"
                 /\ r_response' = Handle(outcome, PreprocessClauses)
                 /\ r_details' = MessageOf(outcome)
                 /\ UNCHANGED llmVars
    /\ UNCHANGED <<requestVars, httpVars, pwVars, rateVars, loopVars, preVars, promptVars, genaiVars>>

\* What an extraction that is over hands to the handler: the kind of the
\* exception raised by extract_event_info or by ScrapeResponse(**event_info),
\* "return" when the response model is built and returned.
ExtractOutcome(out, pydantic_1) ==
    IF out.kind # "return" THEN out.kind
    ELSE IF ValidateResponse(out.value, pydantic_1) = "ok" THEN "return"
    ELSE ValidateResponse(out.value, pydantic_1)

\* Lines 112-162: the extractor returns the record or raises; the record is
\* turned into the response model, inside the same try.
RouteExtracted ==
    /\ r_pc = "extract"
    /\ LlmDone
    /\ \E outcome \in {ExtractOutcome(l_out, r_pydantic_1)} :
          /\ r_outcomes' = Append(r_outcomes, outcome)
          /\ r_response' = IF outcome = "return" THEN ScrapeResponse
                           ELSE Handle(outcome, ExtractClauses)
          /\ r_details' = IF outcome = "return" THEN ""
                          ELSE IF l_out.kind # "return" THEN l_out.message
                          ELSE MessageOf(outcome)
    /\ r_pc' = "done"
    /\ DropLlm
    /\ UNCHANGED <<requestVars, r_stages, httpVars, pwVars, rateVars, loopVars, preVars, promptVars, genaiVars>>

\* The fetcher and the extractor run while the handler awaits them.
NextRoute ==
    \/ RouteValidate
    \/ RouteStart
    \/ RouteFetched
    \/ RoutePreprocess
    \/ RouteExtracted
    \/ NextHttp
    \/ NextPw
    \/ NextLlm

SpecRoute == InitRoute /\ [][NextRoute]_vars

\* The handler has answered.
RouteDone == r_pc = "done"

\* The stage that failed and the exception it failed with, for a request
\* that was answered after an exception.
Failed == RouteDone /\ r_outcomes # <<>> /\ r_outcomes[Len(r_outcomes)] # "return"
FailedStage == r_stages[Len(r_outcomes)]
FailedKind == r_outcomes[Len(r_outcomes)]

\* C11 as stated: every failure is answered with the one status of its kind:
\* FetchError 400, APIKeyError 401, ContentFilterError and
\* ResponseParsingError 422, any other LLMError 503, a preprocessing failure
\* and every other exception 500.
C11_OneStatusPerKind ==
    Failed =>
        r_response.status_code =
            CASE FailedStage = "preprocess" -> 500
              [] FailedStage # "preprocess" /\ FailedKind = "FetchError" -> 400
              [] FailedStage # "preprocess" /\ FailedKind = "APIKeyError" -> 401
              [] FailedStage # "preprocess"
                 /\ FailedKind \in {"ContentFilterError", "ResponseParsingError"} -> 422
              [] FailedStage # "preprocess" /\ FailedKind = "LLMError" -> 503
              [] OTHER -> 500

\* C11, amended: as stated, except that an exception that is a ValueError and
\* is raised outside preprocessing (the validation error of
\* ScrapeResponse(**event_info)) is answered 422 "Validation error", not 500;
\* a subclass of LLMError is never answered with the 503 of LLMError.
C11_StatusPerKind ==
    /\ Failed =>
          r_response =
              CASE FailedStage = "preprocess" ->
                      JSONResponse(500, "Failed to process content")
                [] FailedStage # "preprocess" /\ FailedKind = "FetchError" ->
                      JSONResponse(400, "Failed to fetch content")
                [] FailedStage # "preprocess" /\ FailedKind = "APIKeyError" ->
                      JSONResponse(401, "Invalid API key")
                [] FailedStage # "preprocess" /\ FailedKind = "ContentFilterError" ->
                      JSONResponse(422, "Content filtered")
                [] FailedStage # "preprocess" /\ FailedKind = "ResponseParsingError" ->
                      JSONResponse(422, "Failed to parse response")
                [] FailedStage # "preprocess" /\ FailedKind = "LLMError" ->
                      JSONResponse(503, "LLM service error")
                [] FailedStage # "preprocess"
                   /\ FailedKind \in {"ValueError", "ValidationError"} ->
                      JSONResponse(422, "Validation error")
                [] OTHER -> JSONResponse(500, "Internal server error")
    /\ (Failed /\ FailedKind \in LLMErrorKinds \ {"LLMError"}) =>
          r_response.status_code # 503

\* The extractor returned a record whose start_datetime is no date: the
\* response model rejects it and the request is answered 422.
C11_Witness ==
    /\ Failed
    /\ FailedStage = "extract"
    /\ FailedKind = "ValidationError"
    /\ r_response = JSONResponse(422, "Validation error")

\* The stages in the order of the pipeline.
StageOrder == <<"fetch", "preprocess", "extract">>

\* C12: the stages called are an initial part of fetch, preprocess, extract,
\* each called at most once; every stage before the last one called
\* returned, so that nothing is called after a stage that failed; the
\* fetchers run only as the fetch stage and the extractor only as the
\* extract stage.
C12_StageOrder ==
    /\ Len(r_stages) <= Len(StageOrder)
    /\ r_stages = SubSeq(StageOrder, 1, Len(r_stages))
    /\ Len(r_outcomes) <= Len(r_stages)
    /\ \A n \in 1..(Len(r_stages) - 1) :
          n <= Len(r_outcomes) /\ r_outcomes[n] = "return"
    /\ (h_pc # "idle" \/ p_pc # "idle") => (r_pc = "fetch" /\ r_stages = <<"fetch">>)
    /\ l_pc # "idle" => (r_pc = "extract" /\ r_stages = StageOrder)
    /\ (Failed /\ FailedStage = "fetch") => r_stages = <<"fetch">>
    /\ (Failed /\ FailedStage = "preprocess") => r_stages = <<"fetch", "preprocess">>

\* Preprocessing failed after a rendered fetch: the request is answered and
\* the extractor was never called.
C12_Witness ==
    /\ Failed
    /\ r_use_playwright
    /\ r_stages = <<"fetch", "preprocess">>
    /\ r_outcomes = <<"return", "PreprocessingError">>
    /\ r_response = JSONResponse(500, "Failed to process content")

\* The body of the request fails the validation of ScrapeRequest.
InvalidRequest == ~ValidRequest(r_url, r_key_length, r_instructions_length)

\* C26: a request whose url, API key or custom instructions fail validation
\* is answered with status 400, and no fetch, preprocessing or LLM call is
\* made for it (the answer meant is the one to the validation error, not
\* that of the rate limit, which is looked at first).
C26_InvalidRequestIs400 ==
    InvalidRequest =>
        /\ r_stages = <<>>
        /\ h_pc = "idle" /\ p_pc = "idle" /\ l_pc = "idle"
        /\ (RouteDone /\ r_response.error = "Validation error")
              => r_response.status_code = 400

\* C27: a request whose url targets facebook.com is rejected with status 400
\* before any fetch is attempted: the step of the handler that looks at such
\* a url answers 400, with no stage called and neither fetcher, nor the
\* extractor, started.
C27_FacebookRejected ==
    [][(r_pc = "start" /\ IsFacebook(r_url))
          => /\ r_response' = JSONResponse(400, "Facebook URLs are not supported")
             /\ r_pc' = "done"
             /\ r_stages' = <<>>
             /\ h_pc' = "idle" /\ p_pc' = "idle" /\ l_pc' = "idle"]_vars

\* C28: the response for an uncategorized internal failure carries only the
\* generic safe message, never the text of the exception, whether the
\* handler of /scrape or the application-wide handler wrote it.
C28_GenericMessageOnly ==
    (RouteDone /\ r_response = JSONResponse(500, "Internal server error"))
        => r_details = GenericDetails

-----------------------------------------------------------------------------
(* check_rate_limit (routes.py 16-39), the dependency of POST /scrape. It   *)
(* is a coroutine with no await in its body: the event loop runs a call of  *)
(* it from the first line to the last before any other coroutine's code.    *)

\* Line 17.
RATE_LIMIT == 10

\* Line 18, in seconds.
RATE_WINDOW == 60

\* What the clock can advance by between two calls, in seconds.
ClockSteps == {RATE_WINDOW - 1, RATE_WINDOW}

MutWindowInclusive(now, ts) == now - ts <= RATE_WINDOW

\* Line 28: now - ts < timedelta(seconds=RATE_WINDOW).
InWindow(now, ts) == now - ts < RATE_WINDOW

\* Lines 27-28: the list comprehension, over the first n entries.
RECURSIVE Recent(_, _, _)
Recent(timestamps, now, n) ==
    IF n = 0 THEN <<>>
    ELSE IF InWindow(now, timestamps[n])
      THEN Append(Recent(timestamps, now, n - 1), timestamps[n])
      ELSE Recent(timestamps, now, n - 1)

MutLimitExclusive(timestamps) == Len(timestamps) > RATE_LIMIT

\* Line 31.
LimitReached(timestamps) == Len(timestamps) >= RATE_LIMIT

\* Lines 33-36.
HTTPException(client, now) ==
    [kind |-> "HTTPException", status_code |-> 429, client |-> client, now |-> now]

\* The call returned None: the request goes on to the handler.
Admitted(client, now) ==
    [kind |-> "admitted", status_code |-> 0, client |-> client, now |-> now]

InitRate ==
    /\ IdleHttp
    /\ IdlePw
    /\ IdleLlm
    /\ IdleRoute
    /\ IdleLoop
    /\ IdlePre
    /\ IdlePrompt
    /\ IdleGenai
    /\ k_now = 0
    /\ k_request_counts = [client \in Clients |-> <<>>]
    /\ k_admitted = [client \in Clients |-> <<>>]
    /\ k_last = None

RECURSIVE AdmittedCalls(_, _)
\* The number of calls admitted so far, for the clients of the set together.
AdmittedCalls(admitted, clients) ==
    IF clients = {} THEN 0
    ELSE LET client == CHOOSE c \in clients : TRUE
         IN  Len(admitted[client]) + AdmittedCalls(admitted, clients \ {client})

\* Lines 21-39: one call, for a request of the client.
CheckRateLimit(client) ==
    /\ AdmittedCalls(k_admitted, Clients) < MaxAdmitted
    /\ \E kept \in {Recent(k_request_counts[client], k_now, Len(k_request_counts[client]))} :
          IF LimitReached(kept)
            THEN /\ k_request_counts' = [k_request_counts EXCEPT ![client] = kept]
                 /\ k_last' = HTTPException(client, k_now)
                 /\ UNCHANGED k_admitted
            ELSE /\ k_request_counts' = [k_request_counts EXCEPT ![client] = Append(kept, k_now)]
                 /\ k_admitted' = [k_admitted EXCEPT ![client] = Append(@, k_now)]
                 /\ k_last' = Admitted(client, k_now)
    /\ UNCHANGED <<k_now, httpVars, pwVars, llmVars, routeVars, loopVars, preVars, promptVars, genaiVars>>

\* Time passes between two calls: the readings of datetime.now() taken by
\* line 24 do not decrease.
ClockAdvance(seconds) ==
    /\ k_now + seconds <= MaxNow
    /\ k_now' = k_now + seconds
    /\ UNCHANGED <<k_request_counts, k_admitted, k_last, httpVars, pwVars, llmVars,
                   routeVars, loopVars, preVars, promptVars, genaiVars>>

NextRate ==
    \/ \E client \in Clients : CheckRateLimit(client)
    \/ \E seconds \in ClockSteps : ClockAdvance(seconds)

SpecRate == InitRate /\ [][NextRate]_vars

\* The calls of the client admitted at a time t with start <= t < start + RATE_WINDOW.
\* A window that holds admitted calls holds no fewer when it starts at the
\* first of them.
AdmittedIn(client, start) ==
    {n \in 1..Len(k_admitted[client]) :
        k_admitted[client][n] >= start /\ k_admitted[client][n] - start < RATE_WINDOW}

\* C14: for every client, no window of 60 seconds (a time and the 60 seconds
\* from it on, the end excluded) holds more than 10 admitted calls; the
\* client's list of timestamps never has more than 10 entries; a call is
\* rejected with 429, and with nothing else, when the 60 seconds before it
\* hold 10 admitted calls of the client.
C14_RateLimit ==
    /\ \A client \in Clients :
          /\ Len(k_request_counts[client]) <= RATE_LIMIT
          /\ \A n \in 1..Len(k_admitted[client]) :
                Cardinality(AdmittedIn(client, k_admitted[client][n])) <= RATE_LIMIT
    /\ k_last.kind = "HTTPException" =>
          /\ k_last.status_code = 429
          /\ Cardinality({n \in 1..Len(k_admitted[k_last.client]) :
                            InWindow(k_last.now, k_admitted[k_last.client][n])}) = RATE_LIMIT
    /\ k_last.kind = "admitted" =>
          k_admitted[k_last.client][Len(k_admitted[k_last.client])] = k_last.now

\* A client's eleventh call within a minute is rejected while ten of its
\* timestamps are on record, and another client is still admitted.
C14_Witness ==
    \E client \in Clients, other \in Clients :
        /\ client # other
        /\ k_last = HTTPException(client, RATE_WINDOW - 1)
        /\ Len(k_request_counts[client]) = RATE_LIMIT
        /\ k_request_counts[client][1] = 0
        /\ Len(k_admitted[other]) = 1

\* C39: a call rejected with 429 leaves no timestamp: for every client the
\* list of timestamps is made of the times of its last admitted calls and of
\* nothing else; a call is rejected only when 10 admitted calls of the
\* client lie within the 60 seconds before it (so the client is admitted as
\* soon as there are fewer), and only less than 60 seconds after the oldest
\* timestamp that is counted.
C39_RejectionsNotRecorded ==
    /\ \A client \in Clients :
          /\ Len(k_request_counts[client]) <= Len(k_admitted[client])
          /\ k_request_counts[client]
                = SubSeq(k_admitted[client],
                         Len(k_admitted[client]) - Len(k_request_counts[client]) + 1,
                         Len(k_admitted[client]))
    /\ k_last.kind = "HTTPException" =>
          /\ Cardinality({n \in 1..Len(k_admitted[k_last.client]) :
                            k_last.now - k_admitted[k_last.client][n] < RATE_WINDOW})
                >= RATE_LIMIT
          /\ k_request_counts[k_last.client] # <<>>
          /\ k_last.now - k_request_counts[k_last.client][1] < RATE_WINDOW

\* Ten calls at time 0 and one more 60 seconds later: it is admitted, and its
\* timestamp is the only one left.
C39_Witness ==
    \E client \in Clients :
        /\ k_last = Admitted(client, RATE_WINDOW)
        /\ Len(k_admitted[client]) = RATE_LIMIT + 1
        /\ k_admitted[client][RATE_LIMIT] = 0
        /\ k_request_counts[client] = <<RATE_WINDOW>>

-----------------------------------------------------------------------------
(* The event loop that serves the requests (uvicorn, one thread): the code  *)
(* of one coroutine runs from an await to the next; a coroutine that awaits *)
(* is suspended and the thread is free; a call that blocks (requests.get,   *)
(* time.sleep) keeps the thread until it returns.                           *)

\* Where a request waits on a fetch or on a backoff delay, and whether it
\* waits suspended at an await or inside a blocking call:
\*   http_get      fetchers.py 124, requests.get(...)                blocking
\*   http_sleep    fetchers.py 147 and 192, time.sleep(retry_delay)  blocking
\*   pw_io         fetchers.py 253-375, await of a browser operation
\*   pw_sleep      fetchers.py 402, await asyncio.sleep(...)
\*   extract_io    llm.py 208, await model.generate_content_async(prompt)
\*   extract_wait  llm.py 156-161, the wait of the retry wrapper (asyncio.sleep)
BlockingPositions == {"http_get", "http_sleep"}
AwaitPositions == {"pw_io", "pw_sleep", "extract_io", "extract_wait"}
DelayPositions == {"http_sleep", "pw_sleep", "extract_wait"}
WaitPositions == BlockingPositions \cup AwaitPositions

\* The retries a stage has when it starts: max_retries of the fetcher the
\* mode selects, the attempts of the extractor after the first.
RetriesOf(stage) ==
    CASE stage = "simple" -> HttpDefaultMaxRetries
      [] stage = "rendered" -> PwDefaultMaxRetries
      [] OTHER -> StopAfterAttempt - 1

\* The request that holds the thread once request has moved to position: a
\* request inside a blocking call holds it, a request at an await or at its
\* end has given it back.
ThreadAfter(request, position) == IF position \in BlockingPositions THEN request ELSE 0

InitLoop ==
    /\ IdleHttp
    /\ IdlePw
    /\ IdleLlm
    /\ IdleRoute
    /\ IdleRate
    /\ IdlePre
    /\ IdlePrompt
    /\ IdleGenai
    /\ e_pc = [request \in LoopRequests |-> "start"]
    /\ e_mode \in [LoopRequests -> {"simple", "rendered"}]
    /\ e_left = [request \in LoopRequests |-> 0]
    /\ e_thread = 0

\* The loop runs code of the request: the thread is free, or the request
\* itself holds it.
CanRun(request) == e_thread \in {0, request}

\* The request moves to the position, with the retries it has left.
MoveTo(request, position, left) ==
    /\ e_pc' = [e_pc EXCEPT ![request] = position]
    /\ e_left' = [e_left EXCEPT ![request] = left]
    /\ e_thread' = ThreadAfter(request, position)
    /\ UNCHANGED <<e_mode, httpVars, pwVars, llmVars, routeVars, rateVars, preVars, promptVars, genaiVars>>

\* routes.py 67-88: the handler starts and calls the fetcher of its mode.
LoopStart(request) ==
    /\ CanRun(request)
    /\ e_pc[request] = "start"
    /\ MoveTo(request, IF e_mode[request] = "simple" THEN "http_get" ELSE "pw_io",
              RetriesOf(e_mode[request]))

\* Where the request goes when its fetch or its model call is over: on to the
\* next stage, into the backoff delay before a retry, or to its response.
AfterIo(request, succeeded) ==
    CASE succeeded /\ e_pc[request] \in {"http_get", "pw_io"} ->
            MoveTo(request, "extract_io", RetriesOf("extract"))
      [] succeeded /\ e_pc[request] = "extract_io" ->
            MoveTo(request, "done", 0)
      [] ~succeeded /\ e_left[request] > 0 ->
            MoveTo(request,
                   CASE e_pc[request] = "http_get" -> "http_sleep"
                     [] e_pc[request] = "pw_io" -> "pw_sleep"
                     [] OTHER -> "extract_wait",
                   e_left[request] - 1)
      [] OTHER -> MoveTo(request, "done", 0)

\* fetchers.py 124-194, 253-404, llm.py 208-232 and routes.py 89-147: the
\* fetch or the model call of the request ends.
LoopIo(request) ==
    /\ CanRun(request)
    /\ e_pc[request] \in {"http_get", "pw_io", "extract_io"}
    /\ \E succeeded \in BOOLEAN : AfterIo(request, succeeded)

\* fetchers.py 147-148, 192-194, 402-403 and llm.py 159: the delay is over
\* and the next attempt starts.
LoopDelay(request) ==
    /\ CanRun(request)
    /\ e_pc[request] \in DelayPositions
    /\ MoveTo(request,
              CASE e_pc[request] = "http_sleep" -> "http_get"
                [] e_pc[request] = "pw_sleep" -> "pw_io"
                [] OTHER -> "extract_io",
              e_left[request])

LoopStep(request) == LoopStart(request) \/ LoopIo(request) \/ LoopDelay(request)

NextLoop ==
    \/ \E request \in LoopRequests : LoopStart(request)
    \/ \E request \in LoopRequests : LoopIo(request)
    \/ \E request \in LoopRequests : LoopDelay(request)

SpecLoop == InitLoop /\ [][NextLoop]_vars

\* C13: while a request is in a backoff delay or waits on a fetch or on the
\* model, in simple mode, in rendered mode or in the extractor, every other
\* request that has not been answered can take its next step.
C13_DelaysDoNotBlockOthers ==
    \A waiting \in LoopRequests, other \in LoopRequests :
        (waiting # other /\ e_pc[waiting] \in WaitPositions /\ e_pc[other] # "done")
            => ENABLED LoopStep(other)

-----------------------------------------------------------------------------
(* preprocess_html (preprocessor.py 12-97). BeautifulSoup and the two       *)
(* converters are libraries: what they return for a document is an input    *)
(* of the model, and each may raise.                                        *)

\* Largest max_length a caller passes.
MaxLengthBound == 6

\* Line 90.
TruncationMarker == "... [Content truncated]"

\* html_content: a string, or None.
HtmlContents == {"str", "None"}

\* strategy: the two names the function knows, and two it does not.
Strategies == {"markdownify", "html2text", "invalid", "Markdownify"}

\* What a converter returns: the text before the cleanup of lines 84-85.
ConvertedTexts ==
    {"", "Title", "# Title\n\n  body  \n\n\n", " a \r\n\n b ", "abcdef", "abcdefg",
     "\n \n"}

MutDefaultConverter(strategy) == "markdownify"

\* Lines 73-81: the converter the strategy names; any other name raises
\* ValueError.
Converter(strategy) ==
    IF strategy = "markdownify" THEN "markdownify"
    ELSE IF strategy = "html2text" THEN "html2text"
    ELSE "ValueError"

\* The characters str.splitlines breaks a line at, among those of the model.
LineBreaks == {"\n", "\r", "\f"}

RECURSIVE CleanLines(_)
\* Line 84: line.strip() for line in text.splitlines() if line.strip().
CleanLines(text) ==
    IF text = "" THEN <<>>
    ELSE IF Strip(SubSeq(text, 1, RunLengthNot(text, 1, LineBreaks))) = ""
      THEN CleanLines(From(text, RunLengthNot(text, 1, LineBreaks) + 2))
      ELSE <<Strip(SubSeq(text, 1, RunLengthNot(text, 1, LineBreaks)))>>
           \o CleanLines(From(text, RunLengthNot(text, 1, LineBreaks) + 2))

RECURSIVE JoinLines(_)
\* '\n'.join(lines).
JoinLines(lines) ==
    IF lines = <<>> THEN ""
    ELSE IF Len(lines) = 1 THEN lines[1]
    ELSE lines[1] \o "\n" \o JoinLines(Tail(lines))

RECURSIVE Replace(_, _, _)
\* str.replace(old, new), left to right.
Replace(text, old, new) ==
    IF Find(text, old, 1) = 0 THEN text
    ELSE SubSeq(text, 1, Find(text, old, 1) - 1) \o new
         \o Replace(From(text, Find(text, old, 1) + Len(old)), old, new)

\* Lines 84-85: the cleaned text.
Digest(markdown_content) ==
    Replace(JoinLines(CleanLines(markdown_content)), "\n\n\n", "\n\n")

MutTooLongInclusive(markdown_content, max_length) == Len(markdown_content) >= max_length

\* Line 88.
TooLong(markdown_content, max_length) == Len(markdown_content) > max_length

\* Lines 88-90, for a max_length that is not negative.
Truncate(markdown_content, max_length) ==
    IF TooLong(markdown_content, max_length)
      THEN SubSeq(markdown_content, 1, max_length) \o TruncationMarker
      ELSE markdown_content

\* Lines 95-97: raise PreprocessingError(f"Failed to preprocess HTML: ...").
PreprocessingError(cause) == Exc("PreprocessingError", "Failed to preprocess HTML", 0)

InitPre ==
    /\ IdleHttp
    /\ IdlePw
    /\ IdleLlm
    /\ IdleRoute
    /\ IdleRate
    /\ IdleLoop
    /\ IdlePrompt
    /\ IdleGenai
    /\ q_pc = "parse"
    /\ q_html \in HtmlContents
    /\ q_strategy \in Strategies
    /\ q_selectors_ok \in BOOLEAN
    /\ q_max_length \in 0..MaxLengthBound
    /\ q_converter = ""
    /\ q_markdown = ""
    /\ q_digest = ""
    /\ q_cause = ""
    /\ q_out = None

\* Lines 95-97: an exception raised inside the try leaves the function as a
\* PreprocessingError.
PreRaise(cause) ==
    /\ q_pc' = "raised"
    /\ q_cause' = cause
    /\ q_out' = PreprocessingError(cause)

\* Line 43: BeautifulSoup(html_content, 'html.parser'); a value with no
\* length raises TypeError.
PreParse ==
    /\ q_pc = "parse"
    /\ IF q_html = "None"
         THEN PreRaise("TypeError")
         ELSE q_pc' = "clean" /\ UNCHANGED <<q_cause, q_out>>
    /\ UNCHANGED <<q_html, q_strategy, q_selectors_ok, q_max_length, q_converter,
                   q_markdown, q_digest, httpVars, pwVars, llmVars, routeVars,
                   rateVars, loopVars, promptVars, genaiVars>>

\* Lines 46-70: the removals; soup.select raises on a selector it cannot read.
PreClean ==
    /\ q_pc = "clean"
    /\ IF q_selectors_ok
         THEN q_pc' = "convert" /\ UNCHANGED <<q_cause, q_out>>
         ELSE PreRaise("SelectorSyntaxError")
    /\ UNCHANGED <<q_html, q_strategy, q_selectors_ok, q_max_length, q_converter,
                   q_markdown, q_digest, httpVars, pwVars, llmVars, routeVars,
                   rateVars, loopVars, promptVars, genaiVars>>

\* Lines 72-81: the converter the strategy names is called and returns a
\* text, or raises (RecursionError on a document nested too deep).
PreConvert ==
    /\ q_pc = "convert"
    /\ \E converter \in {Converter(q_strategy)} :
          IF converter = "ValueError"
            THEN PreRaise("ValueError") /\ UNCHANGED <<q_converter, q_markdown>>
            ELSE /\ q_converter' = converter
                 /\ \/ \E text \in ConvertedTexts :
                          /\ q_markdown' = text
                          /\ q_pc' = "cleanup"
                          /\ UNCHANGED <<q_cause, q_out>>
                    \/ PreRaise("RecursionError") /\ UNCHANGED q_markdown
    /\ UNCHANGED <<q_html, q_strategy, q_selectors_ok, q_max_length, q_digest,
                   httpVars, pwVars, llmVars, routeVars, rateVars, loopVars, promptVars, genaiVars>>

\* Lines 84-85: the whitespace cleanup.
PreCleanup ==
    /\ q_pc = "cleanup"
    /\ q_digest' = Digest(q_markdown)
    /\ q_pc' = "truncate"
    /\ UNCHANGED <<q_html, q_strategy, q_selectors_ok, q_max_length, q_converter,
                   q_markdown, q_cause, q_out, httpVars, pwVars, llmVars,
                   routeVars, rateVars, loopVars, promptVars, genaiVars>>

\* Lines 88-93: the truncation and the return.
PreTruncate ==
    /\ q_pc = "truncate"
    /\ q_out' = Returned(Truncate(q_digest, q_max_length))
    /\ q_pc' = "returned"
    /\ UNCHANGED <<q_html, q_strategy, q_selectors_ok, q_max_length, q_converter,
                   q_markdown, q_digest, q_cause, httpVars, pwVars, llmVars,
                   routeVars, rateVars, loopVars, promptVars, genaiVars>>

NextPre ==
    \/ PreParse
    \/ PreClean
    \/ PreConvert
    \/ PreCleanup
    \/ PreTruncate

SpecPre == InitPre /\ [][NextPre]_vars

C25_OnlyPreprocessingError ==
    /\ q_cause # "" => q_pc = "raised"
    /\ q_pc = "raised" => q_out.kind = "PreprocessingError" /\ q_cause # ""
    /\ q_pc \in {"cleanup", "truncate", "returned"} =>
          q_strategy \in {"markdownify", "html2text"} /\ q_html = "str"
    /\ q_strategy \notin {"markdownify", "html2text"} => q_converter = ""

\* The strategy 'invalid' on a document that parses: ValueError, wrapped.
C25_Witness ==
    /\ q_pc = "raised"
    /\ q_html = "str"
    /\ q_strategy = "invalid"
    /\ q_cause = "ValueError"
    /\ q_out.kind = "PreprocessingError"
    /\ q_converter = ""

-----------------------------------------------------------------------------
(* create_extraction_prompt (llm.py 126-154): the prompt is the template    *)
(* with its two placeholders replaced, by str.replace.                      *)

\* Lines 69-108: the template. The rules between the format example and the
\* content are left out of the model's text; every brace and both
\* placeholders are kept.
EVENT_EXTRACTION_PROMPT ==
    "\nYou are a JSON generator that extracts event information from content.\n\n"
    \o "Return ONLY a JSON object in this exact format:\n"
    \o "{\n    \"title\": \"string or null\",\n    \"location\": \"string or null\"\n}\n\n"
    \o "Content to analyze:\n{content}\n\n"
    \o "Additional instructions:\n{custom_instructions}\n\n"
    \o "Remember: Respond ONLY with the JSON object, no other text.\n"

\* Line 138: what stands in for custom instructions that are None or empty.
DefaultInstructions == "Extract all available event information."

\* The digests of the model: plain text, text with braces, percent signs and
\* format directives, text that holds a placeholder or one of the markers
\* of line 140.
PromptContents ==
    {"", "Concert at 8pm", "{\"a\": 1}", "a\nb", "{0} %s %(x)s {{}}",
     "100% {content} {custom_instructions}", "%content%", "50%instructions% off"}

\* custom_instructions: None (the empty sequence) or a string.
PromptInstructions ==
    {<<>>, <<"">>, <<"Focus on dates">>, <<"%content%">>, <<"{content}">>,
     <<"%instructions%">>}

\* Line 138: custom_instructions if custom_instructions else the default.
Instructions(custom_instructions) ==
    IF custom_instructions = <<>> \/ custom_instructions = <<"">>
      THEN DefaultInstructions
      ELSE custom_instructions[1]

\* Line 140.
PromptTemplate(template) ==
    Replace(Replace(template, "{content}", "%content%"),
            "{custom_instructions}", "%instructions%")

InitPrompt ==
    /\ IdleHttp
    /\ IdlePw
    /\ IdleLlm
    /\ IdleRoute
    /\ IdleRate
    /\ IdleLoop
    /\ IdlePre
    /\ IdleGenai
    /\ m_pc = "template"
    /\ m_content \in PromptContents
    /\ m_custom_instructions \in PromptInstructions
    /\ m_prompt = ""
    /\ m_out = None

\* Lines 138-140: the instructions are chosen and the placeholders of the
\* template are renamed.
PromptRename ==
    /\ m_pc = "template"
    /\ m_prompt' = PromptTemplate(EVENT_EXTRACTION_PROMPT)
    /\ m_pc' = "content"
    /\ UNCHANGED <<m_content, m_custom_instructions, m_out, httpVars, pwVars, llmVars,
                   routeVars, rateVars, loopVars, preVars, genaiVars>>

\* Line 141, first call: .replace("%content%", content).
PromptContent ==
    /\ m_pc = "content"
    /\ m_prompt' = Replace(m_prompt, "%content%", m_content)
    /\ m_pc' = "instructions"
    /\ UNCHANGED <<m_content, m_custom_instructions, m_out, httpVars, pwVars, llmVars,
                   routeVars, rateVars, loopVars, preVars, genaiVars>>

\* Lines 141-143, second call: .replace("%instructions%", instructions),
\* and the return.
PromptInstruct ==
    /\ m_pc = "instructions"
    /\ m_prompt' = Replace(m_prompt, "%instructions%", Instructions(m_custom_instructions))
    /\ m_out' = Returned(m_prompt')
    /\ m_pc' = "returned"
    /\ UNCHANGED <<m_content, m_custom_instructions, httpVars, pwVars, llmVars,
                   routeVars, rateVars, loopVars, preVars, genaiVars>>

NextPrompt ==
    \/ PromptRename
    \/ PromptContent
    \/ PromptInstruct

SpecPrompt == InitPrompt /\ [][NextPrompt]_vars

\* C32: for every digest and every custom_instructions value the prompt
\* built by create_extraction_prompt contains the digest verbatim and the
\* custom instructions (the default instruction when none are given), and
\* building it does not raise, whatever characters the digest holds.
C32_PromptContainsInputs ==
    m_pc = "returned" =>
        /\ m_out.kind = "return"
        /\ Find(m_out.value, m_content, 1) > 0
        /\ Find(m_out.value, Instructions(m_custom_instructions), 1) > 0

-----------------------------------------------------------------------------
(* Concurrent calls of extract_event_info (llm.py 110-124, 156-211): the    *)
(* calls run on one event loop and share the configuration of the genai     *)
(* module. One call per key of ApiKeys; a call gives up the loop at the     *)
(* await of line 211 and in the waits between its attempts, nowhere else.   *)

MutConfigureFirstOnly(configured, api_key) ==
    IF configured = "" THEN api_key ELSE configured

\* Lines 120-121: genai.configure(api_key=api_key) replaces the process-wide
\* key, whatever it was.
Configure(configured, api_key) == api_key

\* Lines 156-161: what a failed attempt leaves: the wait before the next
\* attempt, or the error when it was the last one.
AfterFailure(attempt) == IF attempt < StopAfterAttempt THEN "wait" ELSE "raised"

InitGenai ==
    /\ IdleHttp
    /\ IdlePw
    /\ IdleLlm
    /\ IdleRoute
    /\ IdleRate
    /\ IdleLoop
    /\ IdlePre
    /\ IdlePrompt
    /\ g_api_key = ""
    /\ g_pc = [call \in ApiKeys |-> "call"]
    /\ g_attempt = [call \in ApiKeys |-> 1]
    /\ g_client = [call \in ApiKeys |-> ""]
    /\ g_invocations = {}

\* Lines 190-211, up to the suspension of the await: init_gemini, the model
\* instance, the prompt and the start of generate_content_async run without
\* giving up the loop. The invocation takes its client from the process-wide
\* configuration as it starts, and the model instance keeps that client.
\* An attempt that init_gemini, the model's constructor or the prompt ends
\* (lines 122-124, 144-154, 376-391) invokes nothing; a configure that raised
\* has installed the key or has not.
GenaiStart(call) ==
    /\ g_pc[call] \in {"call", "wait"}
    /\ \/ /\ g_api_key' = Configure(g_api_key, call)
          /\ g_client' = [g_client EXCEPT ![call] = g_api_key']
          /\ g_invocations' = g_invocations \cup
                {[api_key |-> call, attempt |-> g_attempt[call], key |-> g_api_key']}
          /\ g_pc' = [g_pc EXCEPT ![call] = "await"]
          /\ g_attempt' = g_attempt
       \/ /\ g_api_key' \in {g_api_key, call}
          /\ g_pc' = [g_pc EXCEPT ![call] = AfterFailure(g_attempt[call])]
          /\ g_attempt' = [g_attempt EXCEPT ![call] =
                              IF g_attempt[call] < StopAfterAttempt THEN @ + 1 ELSE @]
          /\ UNCHANGED <<g_client, g_invocations>>
    /\ UNCHANGED <<httpVars, pwVars, llmVars, routeVars, rateVars, loopVars,
                   preVars, promptVars>>

\* Lines 211-391: the await is over; the attempt returns the record or ends
\* in an LLMError, which the retry of lines 156-161 answers.
GenaiResume(call) ==
    /\ g_pc[call] = "await"
    /\ \E outcome \in {"return", "LLMError"} :
          IF outcome = "return"
            THEN /\ g_pc' = [g_pc EXCEPT ![call] = "returned"]
                 /\ g_attempt' = g_attempt
            ELSE /\ g_pc' = [g_pc EXCEPT ![call] = AfterFailure(g_attempt[call])]
                 /\ g_attempt' = [g_attempt EXCEPT ![call] =
                                     IF g_attempt[call] < StopAfterAttempt
                                       THEN @ + 1 ELSE @]
    /\ UNCHANGED <<g_api_key, g_client, g_invocations, httpVars, pwVars, llmVars,
                   routeVars, rateVars, loopVars, preVars, promptVars>>

NextGenai ==
    \E call \in ApiKeys :
        \/ GenaiStart(call)
        \/ GenaiResume(call)

SpecGenai == InitGenai /\ [][NextGenai]_vars

====
